---- MODULE Spec2Model ----
(***************************************************************************)
(* A model of the simple_parsing resolution engine: registration of        *)
(* dataclass schemas (ArgumentParser.add_arguments, DataclassWrapper),     *)
(* the chain of parsers that resolves subgroup fields                      *)
(* (ArgumentParser.parse_known_args / _preprocessing), and the bottom-up   *)
(* construction of the instances (ArgumentParser._postprocessing).         *)
(*                                                                         *)
(* Destinations and option strings are dotted names in the program; here   *)
(* they are sequences of name components (<<"bob","thing">> is             *)
(* "bob.thing"), so that rpartition("."), split_dest and the dot-join of   *)
(* a lineage are the sequence operations they stand for.                   *)
(***************************************************************************)
EXTENDS Integers, Sequences, FiniteSets, TLC

(***************************************************************************)
(* The state of one session: the program's declarations and registrations  *)
(* (script, decl, pending, reg_log), its command line (args), the chain of *)
(* parsers of the parse call (parsers, cur, pc, rounds), the namespace and *)
(* the unrecognised tokens (parsed_args, unparsed_args), the constructions *)
(* still to do in the current postprocessing pass (todo), the history of   *)
(* the constructions (log), and the exception that ended the session.      *)
(***************************************************************************)
VARIABLES script, decl, declared, pending, reg_log, args, parsers, cur, pc, rounds, parsed_args,
          unparsed_args, todo, log, err, FieldWrapper_argument_generation_mode

vars == <<script, decl, declared, pending, reg_log, args, parsers, cur, pc, rounds, parsed_args,
          unparsed_args, todo, log, err, FieldWrapper_argument_generation_mode>>

(***************************************************************************)
(* Values.  Every Python value of the model has the same record shape, so  *)
(* that any two of them can be compared: an int, a subgroup key (str),     *)
(* None, dataclasses.MISSING, or a dataclass instance (class name and      *)
(* keyword map).                                                           *)
(***************************************************************************)
EmptyKw == [f \in {} |-> 0]

IntV(n) == [tag |-> "int", n |-> n, s |-> "", kw |-> EmptyKw]

BoolV(b) == [tag |-> "bool", n |-> IF b THEN 1 ELSE 0, s |-> "", kw |-> EmptyKw]

\* the names of the places of a list
Place == <<"0", "1", "2", "3">>

\* a list of values
ListV(vs) ==
    [tag |-> "list", n |-> Len(vs), s |-> "",
     kw |-> [k \in {Place[j] : j \in 1..Len(vs)} |->
               vs[CHOOSE j \in 1..Len(vs) : Place[j] = k]]]

KeyV(k) == [tag |-> "key", n |-> 0, s |-> k, kw |-> EmptyKw]

NoneV == [tag |-> "none", n |-> 0, s |-> "", kw |-> EmptyKw]

MissingV == [tag |-> "missing", n |-> 0, s |-> "", kw |-> EmptyKw]

InstV(cls, kw) == [tag |-> "inst", n |-> 0, s |-> cls, kw |-> kw]

\* a (non-empty) dict of field names to values
DictV(kw) == [tag |-> "dict", n |-> 0, s |-> "", kw |-> kw]

IsInst(v) == v.tag = "inst"

IsStr(v) == v.tag = "key"

\* getattr(default, name, None) on an instance, on None or on a dict (whose
\* keys are not attributes)
GetAttr(v, name) ==
    IF v.tag = "inst" /\ name \in DOMAIN v.kw THEN v.kw[name] ELSE NoneV

(***************************************************************************)
(* Callables that can be the values of a subgroups dict: a dataclass type, *)
(* a functools.partial of one, a lambda, or a (value-comparable) config    *)
(* object.  `id` is the object's identity.                                 *)
(***************************************************************************)
ClassFn(c) == [id |-> 0, kind |-> "class", cls |-> c, arg |-> 0]

PartialFn(i, c, a) == [id |-> i, kind |-> "partial", cls |-> c, arg |-> a]

LambdaFn(i, c) == [id |-> i, kind |-> "lambda", cls |-> c, arg |-> 0]

\* a function made by a def statement: like a lambda, a types.FunctionType
FunctionFn(i, c) == [id |-> i, kind |-> "function", cls |-> c, arg |-> 0]

ConfigFn(i, c, a) == [id |-> i, kind |-> "config", cls |-> c, arg |-> a]

NoFn == [id |-> 0, kind |-> "missing", cls |-> "", arg |-> 0]

\* `a is b`: a class is a singleton, any other object is itself only
Is(a, b) == a.kind = b.kind /\ a.cls = b.cls /\ a.id = b.id

\* `a == b`: identity, except for config objects, which compare by value
Eq(a, b) ==
    \/ Is(a, b)
    \/ a.kind = "config" /\ b.kind = "config" /\ a.cls = b.cls /\ a.arg = b.arg

Keys(d) == [i \in 1..Len(d) |-> d[i][1]]

Vals(d) == [i \in 1..Len(d) |-> d[i][2]]

Range(s) == {s[i] : i \in 1..Len(s)}

HasKey(d, k) == \E i \in 1..Len(d) : d[i][1] = k

Lookup(d, k) == d[CHOOSE i \in 1..Len(d) : d[i][1] = k][2]

Last(s) == s[Len(s)]

Front(s) == SubSeq(s, 1, Len(s) - 1)

(***************************************************************************)
(* subgroups(): the field factory of helpers/subgroups.py.  d is the       *)
(* ordered dict of alternatives, default a key (or MISSING), and           *)
(* default_factory one of d's values (or MISSING).                         *)
(***************************************************************************)
\* dataclasses declared frozen (hashable instances)
Frozen(cls) == cls \in {"FrozenFoo"}

\* hash(v) succeeds: a dataclass with eq and without frozen has __hash__ None
Hashable(v) == v.tag # "inst" \/ Frozen(v.s)

NoSubgroups ==
    [ok |-> TRUE, err |-> "", subgroups |-> <<>>, subgroup_default |-> MissingV,
     default_factory |-> NoFn, choices |-> <<>>]

SubgroupsError(e) == [NoSubgroups EXCEPT !.ok = FALSE, !.err = e]

\* IsLambdaType that knows lambda expressions only
is_lambda_expression(f) == f.kind = "lambda"

\* line 106: isinstance(value, types.LambdaType); types.LambdaType is
\* types.FunctionType, the type of every lambda and every def function
IsLambdaType(f) == f.kind \in {"lambda", "function"}

\* matching_keys without the identity pass: the keys whose value == f
matching_keys_by_equality(d, f) == Keys(SelectSeq(d, LAMBDA kv : Eq(kv[2], f)))

\* keys whose value `is` f, else keys whose value == f (lines 155-158)
matching_keys(d, f) ==
    LET byIs == SelectSeq(d, LAMBDA kv : Is(kv[2], f))
        byEq == SelectSeq(d, LAMBDA kv : Eq(kv[2], f))
    IN  Keys(IF Len(byIs) > 0 THEN byIs ELSE byEq)

\* subgroups() that records no default for the field
subgroups_without_default(d, default, default_factory) ==
    [ok |-> TRUE, err |-> "", subgroups |-> d, subgroup_default |-> MissingV,
     default_factory |-> NoFn, choices |-> Keys(d)]

subgroups(d, default, default_factory) ==
    IF default_factory.kind # "missing" /\ default.tag # "missing"
    THEN SubgroupsError("ValueError")
    ELSE IF default.tag # "missing" /\ ~Hashable(default)
    THEN SubgroupsError("TypeError")
    ELSE IF default.tag # "missing" /\ ~(default.tag = "key" /\ HasKey(d, default.s))
    THEN SubgroupsError("ValueError")
    ELSE IF \E i \in 1..Len(d) : IsLambdaType(d[i][2])
    THEN SubgroupsError("NotImplementedError")
    ELSE IF default_factory.kind # "missing"
            /\ ~\E i \in 1..Len(d) : Eq(d[i][2], default_factory)
    THEN SubgroupsError("ValueError")
    ELSE IF default.tag # "missing"
    THEN [ok |-> TRUE, err |-> "", subgroups |-> d, subgroup_default |-> default,
          default_factory |-> Lookup(d, default.s), choices |-> Keys(d)]
    ELSE IF default_factory.kind # "missing"
    THEN IF Len(matching_keys(d, default_factory)) > 1
         THEN SubgroupsError("ValueError")
         ELSE [ok |-> TRUE, err |-> "", subgroups |-> d,
               subgroup_default |-> KeyV(matching_keys(d, default_factory)[1]),
               default_factory |-> default_factory, choices |-> Keys(d)]
    ELSE [ok |-> TRUE, err |-> "", subgroups |-> d, subgroup_default |-> MissingV,
          default_factory |-> NoFn, choices |-> Keys(d)]

(***************************************************************************)
(* The dataclasses of the tests, as the reflection layer shows them: an    *)
(* ordered field list.  kind is what DataclassWrapper.__init__ tests for:  *)
(* a subgroup (choice) field, a list/tuple of dataclasses, a nested        *)
(* dataclass, an Optional[dataclass], or a plain attribute.                *)
(***************************************************************************)
LeafField(name, dflt) ==
    [name |-> name, kind |-> "leaf", cls |-> "", dflt |-> dflt, alternatives |-> <<>>,
     default_key |-> MissingV, default_factory |-> NoFn, init |-> TRUE]

\* name: bool = dflt (MissingV: a required flag)
BoolField(name, dflt) == [LeafField(name, dflt) EXCEPT !.cls = "bool"]

\* name: T = subgroups(alternatives, default=default_key)
SubgroupField(name, alternatives, default_key) ==
    [name |-> name, kind |-> "subgroup", cls |-> "", dflt |-> MissingV,
     alternatives |-> alternatives, default_key |-> default_key,
     default_factory |-> NoFn, init |-> TRUE]

NestedField(name, cls) ==
    [name |-> name, kind |-> "nested", cls |-> cls, dflt |-> MissingV,
     alternatives |-> <<>>, default_key |-> MissingV, default_factory |-> NoFn, init |-> TRUE]

OptionalField(name, cls) ==
    [name |-> name, kind |-> "optional", cls |-> cls, dflt |-> NoneV,
     alternatives |-> <<>>, default_key |-> MissingV, default_factory |-> NoFn, init |-> TRUE]

ContainerField(name, cls, init) ==
    [name |-> name, kind |-> "container", cls |-> cls, dflt |-> MissingV,
     alternatives |-> <<>>, default_key |-> MissingV, default_factory |-> NoFn,
     init |-> init]

\* the alternatives of a subgroup field that are dataclass types
Classes(a, b) == <<<<a[1], ClassFn(a[2])>>, <<b[1], ClassFn(b[2])>>>>

\* test_nesting_merge.py: a task of HyperParameters, with its default
\* name: TaskHyperParameters = field(default_factory=...)
TaskField(name, num_layers, num_units, use_likes) ==
    [NestedField(name, "TaskHyperParameters") EXCEPT
       !.dflt = InstV("TaskHyperParameters",
                      ("num_layers" :> IntV(num_layers)) @@ ("num_units" :> IntV(num_units)) @@
                      ("use_likes" :> BoolV(use_likes)))]

\* test_subgroups.py: Foo, Bar, Bob (test_required_subgroup), WithRequiredArg
\* and Req (the Bob of test_subgroup_with_required_argument), Baz and Two (a
\* Bob of two subgroup fields that both offer Foo, as the one of
\* test_two_subgroups_with_conflict, with its defaults given by key)
\* Dyn: a dataclass whose one field is declared with the subgroups() call of
\* the session (decl)
\* test_nested_subgroups.py: A, B, AB, C, D, CD, Config (defaults given by key)
\* Opt: an Optional[Strict] attribute, Strict and its nested Needs having
\* fields without default
fields(cls) ==
    CASE cls = "Foo" -> <<LeafField("a", IntV(1)), LeafField("b", IntV(2))>>
      [] cls = "Bar" -> <<LeafField("c", IntV(1)), LeafField("d", IntV(2))>>
      [] cls = "Base" -> <<LeafField("a", IntV(5)), BoolField("f", BoolV(FALSE))>>
      [] cls = "Flags" ->
            <<BoolField("a", MissingV), BoolField("b", BoolV(TRUE)),
              BoolField("c", BoolV(FALSE))>>
      [] cls = "TaskHyperParameters" ->
            <<LeafField("num_layers", IntV(1)), LeafField("num_units", IntV(0)),
              BoolField("use_likes", BoolV(TRUE))>>
      [] cls = "HyperParameters" ->
            <<TaskField("gender", 1, 5, TRUE), TaskField("age_group", 1, 123, TRUE),
              TaskField("personality", 1, 0, FALSE)>>
      [] cls = "Bob" ->
            <<SubgroupField("thing", Classes(<<"foo", "Foo">>, <<"bar", "Bar">>), MissingV)>>
      [] cls = "WithRequiredArg" ->
            <<LeafField("some_required_arg", MissingV), LeafField("other_arg", IntV(123))>>
      [] cls = "Req" ->
            <<SubgroupField("thing", Classes(<<"foo", "Foo">>, <<"req", "WithRequiredArg">>),
                            MissingV)>>
      [] cls = "Baz" -> <<LeafField("e", IntV(1)), BoolField("f", BoolV(FALSE))>>
      [] cls = "Two" ->
            <<SubgroupField("first", Classes(<<"foo", "Foo">>, <<"bar", "Bar">>), KeyV("bar")),
              SubgroupField("second", Classes(<<"foo", "Foo">>, <<"baz", "Baz">>),
                            KeyV("foo"))>>
      [] cls = "Needs" -> <<LeafField("n", MissingV)>>
      [] cls = "Strict" -> <<LeafField("r", MissingV), NestedField("needs", "Needs")>>
      [] cls = "Opt" -> <<LeafField("x", IntV(0)), OptionalField("strict", "Strict")>>
      [] cls = "A" -> <<LeafField("a", IntV(0))>>
      [] cls = "B" -> <<LeafField("b", IntV(0))>>
      [] cls = "C" -> <<LeafField("c", IntV(0))>>
      [] cls = "D" -> <<LeafField("d", IntV(0))>>
      [] cls = "AB" ->
            <<SubgroupField("a_or_b", Classes(<<"a", "A">>, <<"b", "B">>), KeyV("a"))>>
      [] cls = "CD" ->
            <<SubgroupField("c_or_d", Classes(<<"c", "C">>, <<"d", "D">>), KeyV("c")),
              LeafField("other_arg", IntV(0))>>
      [] cls = "Config" ->
            <<SubgroupField("ab_or_cd", Classes(<<"ab", "AB">>, <<"cd", "CD">>), KeyV("ab"))>>
      [] cls = "Node" ->
            <<SubgroupField("child", Classes(<<"node", "Node">>, <<"leaf", "Leaf">>),
                            KeyV("node"))>>
      [] cls = "Leaf" -> <<LeafField("v", IntV(0))>>
      [] cls = "Deep" -> <<LeafField("z", IntV(0))>>
      [] cls = "Inner" -> <<LeafField("y", IntV(0)), NestedField("deep", "Deep")>>
      [] cls = "Outer" -> <<LeafField("x", IntV(0)), OptionalField("opt", "Inner")>>
      [] cls = "Mixed" ->
            <<LeafField("w", IntV(0)), NestedField("deep", "Deep"),
              SubgroupField("thing", Classes(<<"foo", "Foo">>, <<"bar", "Bar">>),
                            KeyV("foo"))>>
      [] cls = "Bad" -> <<ContainerField("items", "Foo", TRUE)>>
      [] cls = "Quiet" -> <<LeafField("q", IntV(0)), ContainerField("items", "Foo", FALSE)>>
      [] cls = "Holder" ->
            <<SubgroupField("sg", Classes(<<"foo", "Foo">>, <<"bad", "Bad">>) \o
                                  <<<<"quiet", ClassFn("Quiet")>>>>, KeyV("foo"))>>
      [] cls = "Dyn" ->
            <<[SubgroupField("thing", decl.alternatives, decl.default)
                 EXCEPT !.default_factory = decl.default_factory]>>
      [] OTHER -> <<>>

\* field.metadata of a subgroup field: what subgroups() returned for it
field_metadata(f) ==
    IF f.kind = "subgroup"
    THEN subgroups(f.alternatives, f.default_key, f.default_factory)
    ELSE NoSubgroups

\* the names of the fields fs, and the one of them called name
Names(fs) == {fs[i].name : i \in 1..Len(fs)}

Named(fs, name) == fs[CHOOSE i \in 1..Len(fs) : fs[i].name = name]

(***************************************************************************)
(* Instances.  DefaultInst is what a default_factory that is a dataclass   *)
(* type returns; dataclass_init is the generated __init__: it rejects an   *)
(* unexpected keyword and a missing field that has no default.             *)
(***************************************************************************)
\* the depth to which default instances are built
MaxNesting == 4

RECURSIVE DefaultInst(_, _)

\* utils.default_value(field): the default, else default_factory(), else MISSING
default_value_at(f, fuel) ==
    CASE f.kind = "nested" /\ f.dflt.tag # "inst" -> DefaultInst(f.cls, fuel)
      [] f.kind = "subgroup" /\ f.default_key.tag = "key" ->
           DefaultInst(Lookup(f.alternatives, f.default_key.s).cls, fuel)
      [] f.kind = "subgroup" /\ f.default_factory.kind = "class" ->
           DefaultInst(f.default_factory.cls, fuel)
      [] OTHER -> f.dflt

DefaultInstOf(cls, fs, fuel) ==
    InstV(cls, [n \in Names(fs) |-> default_value_at(Named(fs, n), fuel - 1)])

DefaultInst(cls, fuel) ==
    IF fuel = 0 THEN MissingV ELSE DefaultInstOf(cls, fields(cls), fuel)

default_value(f) == default_value_at(f, MaxNesting)

\* cls(**kw), fs being the fields of cls that __init__ takes
init_with(cls, fs, kw) ==
    IF ~(DOMAIN kw \subseteq Names(fs))
    THEN [ok |-> FALSE, v |-> NoneV]
    ELSE IF DOMAIN kw = Names(fs)
    THEN [ok |-> TRUE, v |-> InstV(cls, kw)]
    ELSE IF \E n \in Names(fs) \ DOMAIN kw : default_value(Named(fs, n)).tag = "missing"
    THEN [ok |-> FALSE, v |-> NoneV]
    ELSE [ok |-> TRUE,
          v |-> InstV(cls, [n \in Names(fs) |->
                              IF n \in DOMAIN kw THEN kw[n]
                              ELSE default_value(Named(fs, n))])]

dataclass_init(cls, kw) ==
    init_with(cls, SelectSeq(fields(cls), LAMBDA f : f.init), kw)

(***************************************************************************)
(* FieldWrapper (wrappers/field_wrapper.py): one leaf or choice field of   *)
(* a node.  Its destination is the node's destination and its name; its    *)
(* default comes from the node's default instance when there is one, else  *)
(* from the field (for a subgroup: the configured default key); it is      *)
(* required when it has no default; its option string is the node's        *)
(* prefix and its name.                                                    *)
(***************************************************************************)
\* the negate option of a boolean field: "--no" before the option's name
negative_option(option) == <<"--no">> \o option

FieldWrapperOf(f, metadata, parentDest, defaults, prefix) ==
    [name |-> f.name,
     dest |-> parentDest \o <<f.name>>,
     destinations |-> <<parentDest \o <<f.name>>>>,
     is_subgroup |-> f.kind = "subgroup",
     subgroups |-> metadata.subgroups,
     choices |-> metadata.choices,
     default |-> IF Len(defaults) > 0 /\ IsInst(defaults[1])
                 THEN GetAttr(defaults[1], f.name)
                 ELSE IF f.kind = "subgroup" THEN metadata.subgroup_default ELSE f.dflt,
     required |-> IF Len(defaults) > 0 /\ IsInst(defaults[1])
                  THEN GetAttr(defaults[1], f.name).tag = "missing"
                  ELSE IF f.kind = "subgroup" THEN metadata.subgroup_default.tag = "missing"
                  ELSE f.dflt.tag = "missing",
     prefix |-> prefix,
     option |-> prefix \o <<f.name>>,
     type |-> IF f.kind = "subgroup" THEN "choice" ELSE IF f.cls = "bool" THEN "bool" ELSE "int",
     negative |-> IF f.cls = "bool" THEN negative_option(prefix \o <<f.name>>) ELSE <<>>]

FieldWrapper(f, parentDest, defaults, prefix) ==
    FieldWrapperOf(f, field_metadata(f), parentDest, defaults, prefix)

(***************************************************************************)
(* DataclassWrapper.__init__: one node per dataclass, built field by       *)
(* field in schema order, children recursively.  The result is             *)
(* [ok, err, field, w]: a list/tuple of dataclasses raises                 *)
(* NotImplementedError naming the field.                                   *)
(***************************************************************************)
NoWrapper == [dataclass |-> ""]

WrapperError(e, fname) == [ok |-> FALSE, err |-> e, field |-> fname, w |-> NoWrapper]

\* the defaults property (lines 178-197), as it is first read at line 108
own_defaults(dflt) == IF dflt.tag = "missing" THEN <<>> ELSE <<dflt>>

child_defaults(default, parentDefaults, f) ==
    IF default.tag = "inst" THEN <<default>>
    ELSE IF Len(parentDefaults) > 0
    THEN [i \in 1..Len(parentDefaults) |->
            IF parentDefaults[i].tag = "none" THEN NoneV
            ELSE GetAttr(parentDefaults[i], f.name)]
    ELSE own_defaults(default_value(f))

RECURSIVE DataclassWrapperAt(_, _, _, _, _, _, _, _)
RECURSIVE WrapFields(_, _, _, _, _, _, _, _)

\* line 50: no argument for a field that __init__ does not take
skipped(f) == ~f.init

\* is_tuple_or_list_of_dataclasses that recognises no container
never_a_container(f) == FALSE

\* line 69: utils.is_tuple_or_list_of_dataclasses(field.type)
is_tuple_or_list_of_dataclasses(f) == f.kind = "container"

\* (a variant of the setter that stops at the node's own fields)
RECURSIVE set_required(_, _)
set_required_here(w, value) ==
    [w EXCEPT !.required = value,
              !.fields = [k \in 1..Len(w.fields) |-> [w.fields[k] EXCEPT !.required = value]]]

\* the setter of DataclassWrapper.required: the node, its fields, and its
\* children through their own setter
set_required(w, value) ==
    [w EXCEPT !.required = value,
              !.fields = [k \in 1..Len(w.fields) |-> [w.fields[k] EXCEPT !.required = value]],
              !.children = [c \in 1..Len(w.children) |-> set_required(w.children[c], value)]]

\* self._children.append(child_wrapper), unless the child's constructor
\* raised; the child of an Optional field after child_wrapper.required = False
with_child(acc, child) ==
    IF child.ok
    THEN [ok |-> TRUE, err |-> "", field |-> "",
          acc |-> [acc EXCEPT !.children =
                     Append(@, IF child.w.optional THEN set_required(child.w, FALSE)
                               ELSE child.w)]]
    ELSE [ok |-> FALSE, err |-> child.err, field |-> child.field, acc |-> acc]

\* one pass of the loop of lines 49-106, for field f: [ok, err, field, acc],
\* acc being [fields, children].  The choice field (line 65) and the plain
\* attribute (line 100) both become a FieldWrapper with the node's prefix.
\* The child of a node whose default is a dict gets None as its default
\* (line 53), and its defaults property, read at line 108, raises at
\* getattr(default, self.name) (line 188).
WrapField(f, field_default, defaults, prefix, dest, plevel, acc) ==
    IF skipped(f) THEN [ok |-> TRUE, err |-> "", field |-> "", acc |-> acc]
    ELSE IF is_tuple_or_list_of_dataclasses(f)
    THEN [ok |-> FALSE, err |-> "NotImplementedError", field |-> f.name, acc |-> acc]
    ELSE IF f.kind \in {"nested", "optional"}
              /\ \E i \in 1..Len(defaults) : defaults[i].tag = "dict"
    THEN [ok |-> FALSE, err |-> "AttributeError", field |-> f.name, acc |-> acc]
    ELSE IF f.kind \in {"nested", "optional"}
    THEN with_child(acc,
           DataclassWrapperAt(f.cls, <<f.name>>, field_default, <<>>, dest,
                              child_defaults(field_default, defaults, f),
                              f.kind = "optional", plevel + 1))
    ELSE [ok |-> TRUE, err |-> "", field |-> "",
          acc |-> [acc EXCEPT !.fields = Append(@, FieldWrapper(f, dest, defaults, prefix))]]

\* the rest of the loop after field i, unless field i raised
next_field(fs, i, default, defaults, prefix, dest, plevel, r) ==
    IF r.ok THEN WrapFields(fs, i + 1, default, defaults, prefix, dest, plevel, r.acc)
    ELSE r

\* the loop of lines 49-106 over the fields fs, from field i on
WrapFields(fs, i, default, defaults, prefix, dest, plevel, acc) ==
    IF i > Len(fs) THEN [ok |-> TRUE, err |-> "", field |-> "", acc |-> acc]
    ELSE next_field(fs, i, default, defaults, prefix, dest, plevel,
           WrapField(fs[i], GetAttr(default, fs[i].name), defaults, prefix, dest,
                     plevel, acc))

\* the node, once its fields are wrapped (r); it has a parent when plevel > 0
wrapper_of(cls, name, dest, default, prefix, defaults, optional, plevel, r) ==
    IF ~r.ok THEN WrapperError(r.err, r.field)
    ELSE [ok |-> TRUE, err |-> "", field |-> "",
          w |-> [dataclass |-> cls,
                 name |-> name,
                 dest |-> dest,
                 has_parent |-> plevel > 0,
                 nparents |-> plevel,
                 default |-> default,
                 defaults |-> defaults,
                 prefix |-> prefix,
                 optional |-> optional,
                 required |-> FALSE,
                 fields |-> r.acc.fields,
                 children |-> r.acc.children,
                 destinations |-> <<dest>>]]

\* parentDest is <<>> for a node without parent; plevel counts the parents
DataclassWrapperAt(cls, name, default, prefix, parentDest, defaults, optional, plevel) ==
    wrapper_of(cls, name, parentDest \o name, default, prefix, defaults, optional, plevel,
               WrapFields(fields(cls), 1, default, defaults, prefix, parentDest \o name,
                          plevel, [fields |-> <<>>, children |-> <<>>]))

\* DataclassWrapper(dataclass, dest, prefix=prefix, default=default), no parent
DataclassWrapper(cls, name, default, prefix) ==
    DataclassWrapperAt(cls, name, default, prefix, <<>>,
                       IF default.tag \in {"inst", "dict"} THEN <<default>> ELSE <<>>,
                       FALSE, 0)

\* Wrapper.nesting_level: root = 0, one more per descent
nesting_level(w) == w.nparents

\* DataclassWrapper.descendants: each child, then that child's descendants
RECURSIVE descendants(_)
RECURSIVE descendants_from(_, _)
descendants_from(children, i) ==
    IF i > Len(children) THEN <<>>
    ELSE <<children[i]>> \o descendants(children[i]) \o descendants_from(children, i + 1)

descendants(w) == descendants_from(w.children, 1)

(***************************************************************************)
(* ArgumentParser.  A parser is a record; the parsers of one parse call    *)
(* form a chain (each resolves the subgroups its parent found).            *)
(***************************************************************************)
EmptyMap == [d \in {} |-> 0]

\* m with m[k] set to v (a dict assignment)
Put(m, k, v) == [x \in DOMAIN m \cup {k} |-> IF x = k THEN v ELSE m[x]]

\* m without the keys in ks (dict.pop)
Drop(m, ks) == [x \in DOMAIN m \ ks |-> m[x]]

\* ArgumentParser.__init__ before the replay of the parents' calls, with the
\* default settings (ArgumentGenerationMode is "flat" or "nested",
\* ConflictResolution "auto" or "always_merge"; add_help=True adds the option
\* --help, whose default is SUPPRESS; _had_help is set by _preprocessing)
NewParser(parents) ==
    [wrappers |-> <<>>,
     argument_generation_mode |-> "flat",
     conflict_resolution |-> "auto",
     replay |-> <<>>,
     subgroups |-> <<>>,
     parents |-> parents,
     preprocessing_done |-> FALSE,
     add_help |-> TRUE,
     had_help |-> FALSE,
     actions |-> <<[option |-> <<"help">>, dest |-> <<"help">>, default |-> MissingV,
                    required |-> FALSE, choices |-> <<>>, is_choice |-> FALSE,
                    type |-> "help", negative |-> <<>>, nargs |-> 1]>>,
     constructor_arguments |-> EmptyMap]

\* one add_arguments call: the dataclass (a type, or an instance of it),
\* the destination, the prefix and the default
Call(cls, is_instance, inst, dest, prefix, default) ==
    [method |-> "add_arguments", dataclass |-> cls, is_instance |-> is_instance,
     inst |-> inst, dest |-> dest, prefix |-> prefix, default |-> default]

\* one add_argument call: parser.add_argument("--name", type=int, default=default)
ArgumentCall(name, default) ==
    [Call("", FALSE, NoneV, <<name>>, <<>>, default) EXCEPT !.method = "add_argument"]

\* the comparison of lines 215-218: a wrapper of the same destination whose
\* dataclass equals the argument (a type never equals an instance)
destination_used(p, call) ==
    \E i \in 1..Len(p.wrappers) :
        /\ p.wrappers[i].dest = call.dest
        /\ ~call.is_instance
        /\ p.wrappers[i].dataclass = call.dataclass

\* lines 235-236: the new node appended, unless its constructor raised
with_wrapper(p, new_wrapper) ==
    IF ~new_wrapper.ok
    THEN [ok |-> FALSE, err |-> new_wrapper.err, field |-> new_wrapper.field, p |-> p]
    ELSE [ok |-> TRUE, err |-> "", field |-> "",
          p |-> [p EXCEPT !.wrappers = Append(@, new_wrapper.w)]]

\* ArgumentParser.add_arguments: [ok, err, field, p].  The call is saved
\* for the children of p before anything is checked.
add_arguments(p, call) ==
    IF destination_used(p, call)
    THEN [ok |-> FALSE, err |-> "ArgumentError", field |-> "",
          p |-> [p EXCEPT !.replay = Append(@, call)]]
    ELSE with_wrapper([p EXCEPT !.replay = Append(@, call)],
           DataclassWrapper(call.dataclass, call.dest,
                            IF call.is_instance /\ call.default.tag = "none"
                            THEN call.inst ELSE call.default,
                            call.prefix))

\* ArgumentParser.add_argument: the call is saved for the children of p, and
\* argparse adds the option, or raises for an option string that is taken
add_argument(p, call) ==
    IF \E i \in 1..Len(p.actions) : p.actions[i].option = call.dest
    THEN [ok |-> FALSE, err |-> "ArgumentError", field |-> "",
          p |-> [p EXCEPT !.replay = Append(@, call)]]
    ELSE [ok |-> TRUE, err |-> "", field |-> "",
          p |-> [p EXCEPT !.replay = Append(@, call),
                          !.actions = Append(@,
                              [option |-> call.dest, dest |-> call.dest,
                               default |-> call.default, required |-> FALSE,
                               choices |-> <<>>, is_choice |-> FALSE, type |-> "int",
                               negative |-> <<>>, nargs |-> 1])]]

\* one saved call applied to the parser p
add_arguments_call(p, call) ==
    IF call.method = "add_argument" THEN add_argument(p, call)
    ELSE add_arguments(p, call)

\* the calls of a replay list applied in order to p; stops at the first raise
RECURSIVE replay_calls(_, _, _)
next_call(calls, i, r) == IF r.ok THEN replay_calls(r.p, calls, i + 1) ELSE r

replay_calls(p, calls, i) ==
    IF i > Len(calls) THEN [ok |-> TRUE, err |-> "", field |-> "", p |-> p]
    ELSE next_call(calls, i, add_arguments_call(p, calls[i]))

(***************************************************************************)
(* ConflictResolver.resolve (conflicts.py), strategy AUTO: the node list   *)
(* flattened (each registered node, then its descendants), and the nodes   *)
(* whose option strings collide qualified by their destination.            *)
(***************************************************************************)
RECURSIVE flatten(_, _)
flatten(ws, i) ==
    IF i > Len(ws) THEN <<>>
    ELSE <<ws[i]>> \o descendants(ws[i]) \o flatten(ws, i + 1)

\* the option of a field: in the flat mode the field's name, qualified on
\* a conflict; in the nested mode the whole destination.  The mode is the
\* one on the class FieldWrapper when the option strings are made
option_string(fw) ==
    IF FieldWrapper_argument_generation_mode = "nested" THEN fw.dest ELSE fw.option

negative_string(fw) ==
    IF fw.negative = <<>> THEN <<>> ELSE negative_option(option_string(fw))

Options(w) ==
    {option_string(w.fields[k]) : k \in 1..Len(w.fields)} \cup
    ({negative_string(w.fields[k]) : k \in 1..Len(w.fields)} \ {<<>>})

Collides(ws, i) == \E j \in 1..Len(ws) : j # i /\ Options(ws[i]) \cap Options(ws[j]) # {}

Qualify(w) ==
    [w EXCEPT !.prefix = w.dest,
              !.fields = [k \in 1..Len(w.fields) |->
                            [w.fields[k] EXCEPT
                               !.prefix = w.dest,
                               !.option = w.dest \o <<w.fields[k].name>>,
                               !.negative = IF @ = <<>> THEN <<>>
                                            ELSE negative_option(w.dest \o <<w.fields[k].name>>)]]]

(***************************************************************************)
(* DataclassWrapper.merge (lines 280-300): the node absorbs the            *)
(* destinations and the defaults of another node of its dataclass, its     *)
(* fields forget their default, and its children absorb the other's        *)
(* children pairwise.                                                      *)
(***************************************************************************)
\* line 295: self.defaults.extend(other.defaults).  The defaults property
\* (lines 178-197) gives the stored list when it is not empty; for a node
\* without field (no parent) whose list is empty it gives a new empty list,
\* and what is added to that one is lost.  (The list of a node with a
\* parent is never empty in the schemas explored.)
extended_defaults(w, other) ==
    IF w.defaults = <<>> /\ ~w.has_parent THEN <<>>
    ELSE w.defaults \o other.defaults

\* FieldWrapper.default once line 298 has reset it: the attribute of each
\* of the node's defaults (of the only one, when there is one), else the
\* field's own
one_default(w, f) ==
    IF Len(w.defaults) = 0
    THEN IF f.kind = "subgroup" THEN field_metadata(f).subgroup_default ELSE f.dflt
    ELSE IF Len(w.defaults) = 1 THEN GetAttr(w.defaults[1], f.name)
    ELSE ListV([i \in 1..Len(w.defaults) |-> GetAttr(w.defaults[i], f.name)])

\* a default that is not one per destination is repeated for every one
reused_default(d, n) ==
    IF d.tag = "missing" \/ (d.tag = "list" /\ d.n = n) THEN d
    ELSE ListV([j \in 1..n |-> d])

\* a field of the node w, which has several destinations
merged_field(w, fw) ==
    [fw EXCEPT !.default = reused_default(one_default(w, Named(fields(w.dataclass), fw.name)),
                                          Len(w.destinations)),
               !.destinations = [j \in 1..Len(w.destinations) |->
                                   w.destinations[j] \o <<fw.name>>]]

RECURSIVE merge(_, _)
\* lines 297-300, m being the node with its new destinations and defaults
merge_rest(m, other) ==
    [m EXCEPT !.fields = [k \in 1..Len(m.fields) |-> merged_field(m, m.fields[k])],
              !.children = [c \in 1..Len(m.children) |->
                              IF c <= Len(other.children)
                              THEN merge(m.children[c], other.children[c])
                              ELSE m.children[c]]]

merge(w, other) ==
    merge_rest([w EXCEPT !.destinations =
                            @ \o SelectSeq(other.destinations,
                                           LAMBDA d : d \notin Range(w.destinations)),
                         !.defaults = extended_defaults(w, other)], other)

(***************************************************************************)
(* ConflictResolver, strategy ALWAYS_MERGE: as long as two nodes of one    *)
(* dataclass have a common option string, the first absorbs the second,    *)
(* which leaves the list with its descendants.                             *)
(***************************************************************************)
MergeablePairs(ws) ==
    {ij \in (1..Len(ws)) \X (1..Len(ws)) :
        /\ ij[1] < ij[2]
        /\ ws[ij[1]].dataclass = ws[ij[2]].dataclass
        /\ Options(ws[ij[1]]) \cap Options(ws[ij[2]]) # {}}

\* the list ws once the nodes of `tree` have taken the place of the nodes
\* of their destinations, and the nodes of `gone` have left
replaced(ws, tree, gone) ==
    SelectSeq([k \in 1..Len(ws) |->
                 IF \E r \in 1..Len(tree) : tree[r].dest = ws[k].dest
                 THEN tree[CHOOSE r \in 1..Len(tree) : tree[r].dest = ws[k].dest]
                 ELSE ws[k]],
              LAMBDA w : \A g \in 1..Len(gone) : gone[g].dest # w.dest)

RECURSIVE merge_conflicts(_)
\* m: the first node of the pair, merged with the second, `other`
merge_pair(ws, m, other) ==
    merge_conflicts(replaced(ws, <<m>> \o descendants(m), <<other>> \o descendants(other)))

\* the first pair (in list order) merged, until there is none
merge_conflicts(ws) ==
    IF MergeablePairs(ws) = {} THEN ws
    ELSE LET ij == CHOOSE ij \in MergeablePairs(ws) : \A kl \in MergeablePairs(ws) :
                      ij[1] < kl[1] \/ (ij[1] = kl[1] /\ ij[2] <= kl[2])
         IN  merge_pair(ws, merge(ws[ij[1]], ws[ij[2]]), ws[ij[2]])

resolve(wrappers) ==
    LET flat == flatten(wrappers, 1)
        fixed == [i \in 1..Len(flat) |->
                    IF Collides(flat, i) THEN Qualify(flat[i]) ELSE flat[i]]
    IN  IF \E i \in 1..Len(fixed) : Collides(fixed, i)
        THEN [ok |-> FALSE, wrappers |-> fixed]
        ELSE [ok |-> TRUE, wrappers |-> fixed]

(***************************************************************************)
(* _preprocessing: resolve the conflicts, add one option per field         *)
(* (DataclassWrapper.add_arguments), and collect the subgroup fields that  *)
(* no parent of this parser has as a subgroup.                             *)
(***************************************************************************)
RECURSIVE all_fields(_, _)
all_fields(ws, i) ==
    IF i > Len(ws) THEN <<>> ELSE ws[i].fields \o all_fields(ws, i + 1)

\* the option FieldWrapper.arg_options describe
Action(fw) ==
    [option |-> option_string(fw), dest |-> fw.dest, default |-> fw.default,
     required |-> fw.required, choices |-> fw.choices, is_choice |-> fw.is_subgroup,
     type |-> fw.type, negative |-> negative_string(fw),
     nargs |-> Len(fw.destinations)]

\* the dict self.subgroups, in insertion order: one entry per destination,
\* at the place of its first assignment, holding its last one.
\* parentSubgroups: the destinations in parent.subgroups, over the parents
find_subgroups(wrappers, parentSubgroups) ==
    LET fws == all_fields(wrappers, 1)
        unresolved == SelectSeq(fws, LAMBDA fw :
                          fw.is_subgroup /\ fw.dest \notin parentSubgroups)
        first == {i \in 1..Len(unresolved) :
                    \A j \in 1..(i - 1) : unresolved[j].dest # unresolved[i].dest}
        lastOf(i) == CHOOSE j \in 1..Len(unresolved) :
                        /\ unresolved[j].dest = unresolved[i].dest
                        /\ \A k \in (j + 1)..Len(unresolved) :
                              unresolved[k].dest # unresolved[i].dest
        kept == SelectSeq([i \in 1..Len(unresolved) |-> i], LAMBDA i : i \in first)
    IN  [n \in 1..Len(kept) |->
            [dest |-> unresolved[kept[n]].dest,
             subgroups |-> unresolved[lastOf(kept[n])].subgroups]]

\* _resolve_conflicts (lines 379-380), with the strategy of line 103
resolve_conflicts(p) ==
    IF p.conflict_resolution = "always_merge"
    THEN [ok |-> \A i \in 1..Len(merge_conflicts(flatten(p.wrappers, 1))) :
                    ~Collides(merge_conflicts(flatten(p.wrappers, 1)), i),
          wrappers |-> merge_conflicts(flatten(p.wrappers, 1))]
    ELSE resolve(p.wrappers)

\* (a variant of _remove_help_action that removes nothing)
keep_help_action(actions) == actions

\* _remove_help_action: the parser without its --help option
remove_help_action(actions) == SelectSeq(actions, LAMBDA a : a.type # "help")

\* r: what the conflict resolver returned.  The options of the fields are
\* added after the ones of add_argument; argparse raises for an option string
\* that is taken.  A parser that has subgroups to resolve loses its --help.
preprocessed(p, parentSubgroups, r) ==
    IF ~r.ok THEN [ok |-> FALSE, err |-> "ConflictResolutionError", p |-> p]
    ELSE IF \E i \in 1..Len(p.actions) : \E k \in 1..Len(all_fields(r.wrappers, 1)) :
               p.actions[i].option = Action(all_fields(r.wrappers, 1)[k]).option
    THEN [ok |-> FALSE, err |-> "ArgumentError", p |-> p]
    ELSE [ok |-> TRUE, err |-> "",
          p |-> [p EXCEPT !.wrappers = r.wrappers,
                          !.actions =
                             (IF find_subgroups(r.wrappers, parentSubgroups) # <<>>
                                 /\ p.add_help
                              THEN remove_help_action(@) ELSE @)
                             \o [i \in 1..Len(all_fields(r.wrappers, 1)) |->
                                    Action(all_fields(r.wrappers, 1)[i])],
                          !.had_help = p.add_help,
                          !.add_help = @ /\ find_subgroups(r.wrappers, parentSubgroups) = <<>>,
                          !.subgroups = find_subgroups(r.wrappers, parentSubgroups),
                          !.preprocessing_done = TRUE]]

\* _preprocessing without the test of _preprocessing_done
preprocessing_again(p, parentSubgroups) ==
    preprocessed(p, parentSubgroups, resolve_conflicts(p))

preprocessing(p, parentSubgroups) ==
    IF p.preprocessing_done THEN [ok |-> TRUE, err |-> "", p |-> p]
    ELSE preprocessed(p, parentSubgroups, resolve_conflicts(p))

(***************************************************************************)
(* argparse.ArgumentParser.parse_known_args over the options registered    *)
(* so far.  A token is an option string with its raw value.  Every option  *)
(* starts at its default; a recognised token converts its value (the last  *)
(* occurrence wins); an unrecognised token goes to the extras; a required  *)
(* option that never occurred is an error.                                 *)
(***************************************************************************)
Token(opt, raw) == [opt |-> opt, raw |-> raw, more |-> <<>>]

\* an option followed by several values
Tokens(opt, raws) == [opt |-> opt, raw |-> Head(raws), more |-> Tail(raws)]

\* int(raw)
int(raw) ==
    CASE raw = "0" -> [ok |-> TRUE, v |-> IntV(0)]
      [] raw = "1" -> [ok |-> TRUE, v |-> IntV(1)]
      [] raw = "5" -> [ok |-> TRUE, v |-> IntV(5)]
      [] raw = "123" -> [ok |-> TRUE, v |-> IntV(123)]
      [] OTHER -> [ok |-> FALSE, v |-> NoneV]

\* str(v), for an int or a bool
str(v) ==
    CASE v = IntV(0) -> "0"
      [] v = IntV(1) -> "1"
      [] v = IntV(5) -> "5"
      [] v = IntV(123) -> "123"
      [] v = BoolV(TRUE) -> "True"
      [] v = BoolV(FALSE) -> "False"
      [] OTHER -> "None"

\* the conversion and the choices check of one option
get_value(action, raw) ==
    IF action.is_choice
    THEN IF raw \in Range(action.choices)
         THEN [ok |-> TRUE, err |-> "", v |-> KeyV(raw)]
         ELSE [ok |-> FALSE, err |-> "invalid_choice", v |-> NoneV]
    ELSE IF int(raw).ok THEN [ok |-> TRUE, err |-> "", v |-> int(raw).v]
         ELSE [ok |-> FALSE, err |-> "invalid_value", v |-> NoneV]

\* utils.str2bool(raw)
str2bool(raw) ==
    CASE raw \in {"true", "True"} -> [ok |-> TRUE, v |-> BoolV(TRUE)]
      [] raw \in {"false", "False"} -> [ok |-> TRUE, v |-> BoolV(FALSE)]
      [] OTHER -> [ok |-> FALSE, v |-> NoneV]

\* the value of one occurrence of a boolean option: the negate option
\* (which takes no value) gives False, the assert option alone gives True,
\* and the assert option with a value gives that value
bool_value(action, token) ==
    IF token.opt = action.negative
    THEN IF token.raw = "" THEN [ok |-> TRUE, err |-> "", v |-> BoolV(FALSE)]
         ELSE [ok |-> FALSE, err |-> "invalid_value", v |-> NoneV]
    ELSE IF token.raw = "" THEN [ok |-> TRUE, err |-> "", v |-> BoolV(TRUE)]
    ELSE IF str2bool(token.raw).ok THEN [ok |-> TRUE, err |-> "", v |-> str2bool(token.raw).v]
    ELSE [ok |-> FALSE, err |-> "invalid_value", v |-> NoneV]

\* the conversion of one of the values of an option of several destinations
element(action, raw) ==
    IF action.type = "bool"
    THEN [ok |-> str2bool(raw).ok, err |-> IF str2bool(raw).ok THEN "" ELSE "invalid_value",
          v |-> str2bool(raw).v]
    ELSE get_value(action, raw)

\* the values given to an option of several destinations: one for all of
\* them, or one for each
values_of(action, raws) ==
    IF Len(raws) \notin {1, action.nargs}
    THEN [ok |-> FALSE, err |-> "inconsistent_arguments", v |-> NoneV]
    ELSE IF \E i \in 1..Len(raws) : ~element(action, raws[i]).ok
    THEN [ok |-> FALSE, err |-> "invalid_value", v |-> NoneV]
    ELSE [ok |-> TRUE, err |-> "", v |-> ListV([i \in 1..Len(raws) |-> element(action, raws[i]).v])]

\* the value argparse stores for one occurrence of an option; --help prints
\* the help of the parser and exits
convert(action, token) ==
    IF action.type = "help" THEN [ok |-> FALSE, err |-> "print_help", v |-> NoneV]
    ELSE IF action.nargs > 1 THEN values_of(action, <<token.raw>> \o token.more)
    ELSE IF action.type = "bool" THEN bool_value(action, token)
    ELSE get_value(action, token.raw)


Recognised(actions, opt) ==
    \E i \in 1..Len(actions) : opt \in {actions[i].option, actions[i].negative} \ {<<>>}

ActionFor(actions, opt) ==
    actions[CHOOSE i \in 1..Len(actions) : opt \in {actions[i].option, actions[i].negative}]

argparse_default(action) ==
    IF action.default.tag = "missing" THEN NoneV ELSE action.default

initial_namespace(actions) ==
    [d \in {actions[i].dest : i \in 1..Len(actions)} \ {<<"help">>} |->
        argparse_default(actions[CHOOSE i \in 1..Len(actions) :
            /\ actions[i].dest = d
            /\ \A j \in 1..(i - 1) : actions[j].dest # d])]

RECURSIVE consume_tokens(_, _, _, _, _, _)
\* (a variant that keeps the value of an option's first occurrence)
keep_first_token(actions, tokens, i, ns, seen, extras, a, c) ==
    IF ~c.ok
    THEN [ok |-> FALSE, err |-> c.err, ns |-> ns, seen |-> seen, extras |-> extras]
    ELSE consume_tokens(actions, tokens, i + 1,
                        IF a.option \in seen THEN ns ELSE Put(ns, a.dest, c.v),
                        seen \cup {a.option}, extras)

\* a recognised token: a is its option, c its converted value
consume_token(actions, tokens, i, ns, seen, extras, a, c) ==
    IF ~c.ok
    THEN [ok |-> FALSE, err |-> c.err, ns |-> ns, seen |-> seen, extras |-> extras]
    ELSE consume_tokens(actions, tokens, i + 1, Put(ns, a.dest, c.v),
                        seen \cup {a.option},
                        \* the values that an option of one value does not take
                        IF a.nargs > 1 THEN extras
                        ELSE extras \o [m \in 1..Len(tokens[i].more) |->
                                          Token(<<>>, tokens[i].more[m])])

consume_tokens(actions, tokens, i, ns, seen, extras) ==
    IF i > Len(tokens) THEN [ok |-> TRUE, err |-> "", ns |-> ns, seen |-> seen,
                           extras |-> extras]
    ELSE IF ~Recognised(actions, tokens[i].opt)
    THEN consume_tokens(actions, tokens, i + 1, ns, seen, Append(extras, tokens[i]))
    ELSE consume_token(actions, tokens, i, ns, seen, extras,
                       ActionFor(actions, tokens[i].opt),
                       convert(ActionFor(actions, tokens[i].opt), tokens[i]))

\* (a variant of _remove_help_action that removes nothing)
\* (a variant that lets a parse without a required option pass)
nothing_required(actions, r) ==
    [ok |-> r.ok, err |-> r.err, ns |-> r.ns, extras |-> r.extras]

\* r: the namespace, the options seen and the extras after the last token
check_required(actions, r) ==
    IF ~r.ok THEN [ok |-> FALSE, err |-> r.err, ns |-> r.ns, extras |-> r.extras]
    ELSE IF \E i \in 1..Len(actions) :
               actions[i].required /\ actions[i].option \notin r.seen
    THEN [ok |-> FALSE, err |-> "missing_required", ns |-> r.ns, extras |-> r.extras]
    ELSE [ok |-> TRUE, err |-> "", ns |-> r.ns, extras |-> r.extras]

argparse_parse_known_args(actions, tokens) ==
    check_required(actions,
                   consume_tokens(actions, tokens, 1, initial_namespace(actions), {}, <<>>))

(***************************************************************************)
(* parse_known_args, lines 260-292: the child parser of p.  It replays     *)
(* p's add_arguments calls, then registers, for every subgroup of p, the   *)
(* chosen dataclass at the subgroup's destination, with the last name of   *)
(* the destination as prefix.                                              *)
(***************************************************************************)
\* (a variant that registers the chosen class without the prefix)
subgroup_call_without_prefix(entry, value) ==
    IF IsStr(value)
    THEN Call(Lookup(entry.subgroups, value.s).cls, FALSE, NoneV, entry.dest, <<>>, NoneV)
    ELSE Call(IF IsInst(value) THEN value.s ELSE "NoneType", FALSE, NoneV, entry.dest,
              <<>>, value)

subgroup_call(entry, value) ==
    IF IsStr(value)
    THEN Call(Lookup(entry.subgroups, value.s).cls, FALSE, NoneV, entry.dest,
              <<Last(entry.dest)>>, NoneV)
    ELSE Call(IF IsInst(value) THEN value.s ELSE "NoneType", FALSE, NoneV, entry.dest,
              <<Last(entry.dest)>>, value)

\* parser.add_arguments(chosen_class, dest=dest, prefix=prefix[, default])
add_subgroup(child, call) ==
    IF call.dataclass = "NoneType"
    THEN [ok |-> FALSE, err |-> "TypeError", field |-> "", p |-> child]
    ELSE add_arguments(child, call)

RECURSIVE add_subgroups(_, _, _, _)
next_subgroup(entries, ns, i, r) ==
    IF r.ok THEN add_subgroups(r.p, entries, ns, i + 1) ELSE r

\* the loop of lines 269-292 from entry i on
add_subgroups(child, entries, ns, i) ==
    IF i > Len(entries) THEN [ok |-> TRUE, err |-> "", field |-> "", p |-> child]
    ELSE next_subgroup(entries, ns, i,
           add_subgroup(child, subgroup_call(entries[i], ns[entries[i].dest])))

\* replayed: the child after ArgumentParser.__init__ (lines 133-135)
with_subgroups(p, ns, replayed) ==
    IF ~replayed.ok THEN replayed
    ELSE add_subgroups(replayed.p, p.subgroups, ns, 1)

child_parser(p, index, ns) ==
    with_subgroups(p, ns,
                   replay_calls([NewParser(<<index>>) EXCEPT
                                   !.argument_generation_mode = p.argument_generation_mode,
                                   !.add_help = p.had_help,
                                   !.actions = IF p.had_help THEN @ ELSE <<>>],
                                p.replay, 1))

(***************************************************************************)
(* _consume_constructor_arguments: every field writes its value (the       *)
(* namespace's, else its default) into the bag under each destination of   *)
(* its node (FieldWrapper.__call__), then the fields' destinations are     *)
(* removed from the namespace.                                             *)
(***************************************************************************)
RECURSIVE Concat(_, _)
Concat(ss, i) == IF i > Len(ss) THEN <<>> ELSE ss[i] \o Concat(ss, i + 1)

\* (a variant that writes every field's default)
field_writes_of_defaults(w, ns) ==
    Concat([k \in 1..Len(w.fields) |->
              [j \in 1..Len(w.destinations) |->
                 [dest |-> w.destinations[j],
                  name |-> w.fields[k].name,
                  value |-> w.fields[k].default]]], 1)

\* (a variant that gives the first value to every destination)
pick_first(v, j) ==
    IF v.tag # "list" THEN v ELSE v.kw[Place[1]]

\* (a variant that gives the j-th value, when there is one)
pick_own(v, j) ==
    IF v.tag # "list" THEN v
    ELSE IF j <= v.n THEN v.kw[Place[j]]
    ELSE NoneV

\* the value of the j-th destination: a list of one value gives it to
\* every destination, a longer one gives its j-th value
pick(v, j) ==
    IF v.tag # "list" THEN v
    ELSE IF v.n = 1 THEN v.kw[Place[1]]
    ELSE v.kw[Place[j]]

field_writes(w, ns) ==
    Concat([k \in 1..Len(w.fields) |->
              [j \in 1..Len(w.destinations) |->
                 [dest |-> w.destinations[j],
                  name |-> w.fields[k].name,
                  value |-> pick(IF w.fields[k].dest \in DOMAIN ns
                                 THEN ns[w.fields[k].dest]
                                 ELSE w.fields[k].default, j)]]], 1)

RECURSIVE apply_writes(_, _, _)
apply_writes(ca, writes, i) ==
    IF i > Len(writes) THEN ca
    ELSE LET x == writes[i]
             kw == IF x.dest \in DOMAIN ca THEN ca[x.dest] ELSE EmptyKw
         IN  apply_writes(Put(ca, x.dest, Put(kw, x.name, x.value)), writes, i + 1)

\* (a variant that leaves the attributes of the fields in the namespace)
consume_without_clean_up(p, ns) ==
    [p |-> [p EXCEPT !.constructor_arguments =
              apply_writes(@, Concat([i \in 1..Len(p.wrappers) |->
                                        field_writes(p.wrappers[i], ns)], 1), 1)],
     ns |-> ns]

consume_constructor_arguments(p, ns) ==
    LET writes == Concat([i \in 1..Len(p.wrappers) |-> field_writes(p.wrappers[i], ns)], 1)
        fws == all_fields(p.wrappers, 1)
    IN  [p |-> [p EXCEPT !.constructor_arguments = apply_writes(@, writes, 1)],
         ns |-> Drop(ns, {fws[i].dest : i \in 1..Len(fws)})]

(***************************************************************************)
(* _set_instances_in_namespace: the nodes sorted by nesting level, deepest *)
(* first (a stable sort), and one construction per node and destination.   *)
(***************************************************************************)
MaxLevel(ws) ==
    IF Len(ws) = 0 THEN 0
    ELSE CHOOSE l \in {nesting_level(ws[i]) : i \in 1..Len(ws)} :
            \A i \in 1..Len(ws) : nesting_level(ws[i]) <= l

RECURSIVE sorted_from(_, _)
sorted_from(ws, l) ==
    IF l < 0 THEN <<>>
    ELSE SelectSeq([i \in 1..Len(ws) |-> i], LAMBDA i : nesting_level(ws[i]) = l)
         \o sorted_from(ws, l - 1)

\* sorted_wrappers without the sort: the nodes in list order
unsorted_wrappers(ws) == [i \in 1..Len(ws) |-> i]

\* sorted(self._wrappers, key=nesting_level, reverse=True), as indices
sorted_wrappers(ws) == sorted_from(ws, MaxLevel(ws))

\* the (node, destination) pairs in the order of the two loops
construction_order(ws) ==
    LET order == sorted_wrappers(ws)
    IN  Concat([n \in 1..Len(order) |->
                  [j \in 1..Len(ws[order[n]].destinations) |->
                     [w |-> order[n], dest |-> ws[order[n]].destinations[j]]]], 1)

\* lines 515-525: the node is optional, has no default, and every one of
\* its own fields has its default value in the keyword map
all_default_or_none(w, kw) ==
    \A k \in 1..Len(w.fields) : kw[w.fields[k].name] = w.fields[k].default

\* lines 556-559
overwrites_subgroup_choice(w, destination) ==
    \E k \in 1..Len(w.fields) :
        /\ w.fields[k].is_subgroup
        /\ Len(w.fields[k].dest) >= Len(destination)
        /\ SubSeq(w.fields[k].dest, 1, Len(destination)) = destination

\* lines 515-533: [ok, err, constructed, instance, kw]
construct(w, kw) ==
    IF w.optional /\ w.default.tag = "none"
       /\ \E k \in 1..Len(w.fields) : w.fields[k].name \notin DOMAIN kw
    THEN [ok |-> FALSE, err |-> "KeyError", constructed |-> FALSE, instance |-> NoneV,
          kw |-> kw]
    ELSE IF w.optional /\ w.default.tag = "none" /\ all_default_or_none(w, kw)
    THEN [ok |-> TRUE, err |-> "", constructed |-> FALSE, instance |-> NoneV, kw |-> kw]
    ELSE [ok |-> dataclass_init(w.dataclass, kw).ok,
          err |-> IF dataclass_init(w.dataclass, kw).ok THEN "" ELSE "TypeError",
          constructed |-> TRUE,
          instance |-> dataclass_init(w.dataclass, kw).v,
          kw |-> kw]

\* lines 536-541: self.constructor_arguments[parent_key][attr] = instance
set_in_parent(ca, destination, instance) ==
    Put(ca, Front(destination),
        Put(IF Front(destination) \in DOMAIN ca THEN ca[Front(destination)] ELSE EmptyKw,
            Last(destination), instance))

\* pop_destination without the pop: the entry stays in the bag
pop_nothing(ca, destination) == ca

\* line 570: self.constructor_arguments.pop(destination)
pop_destination(ca, destination) == Drop(ca, {destination})

\* lines 535-570: the instance c stored in the parent's keyword map, or in
\* the namespace; [ok, err, ca, ns, constructed, instance, kw]
store(w, destination, ca, ns, c) ==
    IF ~c.ok
    THEN [ok |-> FALSE, err |-> c.err, ca |-> ca, ns |-> ns,
          constructed |-> FALSE, instance |-> NoneV, kw |-> c.kw]
    ELSE IF w.has_parent
    THEN [ok |-> TRUE, err |-> "",
          ca |-> pop_destination(set_in_parent(ca, destination, c.instance), destination),
          ns |-> ns, constructed |-> c.constructed, instance |-> c.instance,
          kw |-> c.kw]
    ELSE IF destination \in DOMAIN ns /\ ~overwrites_subgroup_choice(w, destination)
    THEN [ok |-> FALSE, err |-> "RuntimeError", ca |-> ca, ns |-> ns,
          constructed |-> c.constructed, instance |-> c.instance, kw |-> c.kw]
    ELSE [ok |-> TRUE, err |-> "", ca |-> pop_destination(ca, destination),
          ns |-> Put(ns, destination, c.instance),
          constructed |-> c.constructed, instance |-> c.instance, kw |-> c.kw]

\* one iteration of the inner loop (lines 502-570)
set_instance(w, destination, ca, ns) ==
    store(w, destination, ca, ns,
          construct(w, IF destination \in DOMAIN ca THEN ca[destination] ELSE EmptyKw))

(***************************************************************************)
(* The sessions explored: the subgroups() declaration of the schema (for   *)
(* the schema Dyn), the add_arguments calls the program makes on one       *)
(* parser, and the tokens its command line is made of.                     *)
(***************************************************************************)
TypeCall(cls, dest) == Call(cls, FALSE, NoneV, dest, <<>>, NoneV)

DefaultCall(cls, dest, default) == Call(cls, FALSE, NoneV, dest, <<>>, default)

InstanceCall(inst, dest) == Call(inst.s, TRUE, inst, dest, <<>>, NoneV)

FooInstance == InstV("Foo", ("a" :> IntV(5)) @@ ("b" :> IntV(2)))

BarInstance == InstV("Bar", ("c" :> IntV(1)) @@ ("d" :> IntV(5)))

FrozenFooInstance == InstV("FrozenFoo", ("a" :> IntV(5)))

DeepInstance == InstV("Deep", ("z" :> IntV(1)))

InnerInstance == InstV("Inner", ("y" :> IntV(1)) @@ ("deep" :> DeepInstance))

OuterInstance == InstV("Outer", ("x" :> IntV(1)) @@ ("opt" :> InnerInstance))

MixedInstance ==
    InstV("Mixed", ("w" :> IntV(1)) @@ ("deep" :> DeepInstance) @@ ("thing" :> BarInstance))

\* the arguments of a subgroups() call
Declaration(alternatives, default, default_factory) ==
    [alternatives |-> alternatives, default |-> default,
     default_factory |-> default_factory]

NoDeclaration == Declaration(<<>>, MissingV, NoFn)

\* thing: Union[Foo, Bar] = subgroups({"foo": Foo, "bar": Bar}, ...)
Declarations ==
    {Declaration(Classes(<<"foo", "Foo">>, <<"bar", "Bar">>), default, default_factory) :
        default \in {MissingV, KeyV("bar"), KeyV("zz"), BarInstance, FrozenFooInstance},
        default_factory \in {NoFn, ClassFn("Bar"), ClassFn("Baz")}}

\* the subgroups() calls of a program that only declares the schema: over
\* dicts with a repeated class, a lambda, a def function, partials, and
\* config objects that are equal but not identical
Alternatives ==
    {Classes(<<"foo", "Foo">>, <<"bar", "Bar">>),
     Classes(<<"foo", "Foo">>, <<"bar", "Foo">>),
     <<<<"foo", ClassFn("Foo")>>, <<"lam", LambdaFn(1, "Bar")>>>>,
     <<<<"foo", ClassFn("Foo")>>, <<"fn", FunctionFn(1, "Bar")>>>>,
     <<<<"p1", PartialFn(1, "Foo", 1)>>, <<"p2", PartialFn(2, "Foo", 1)>>>>,
     <<<<"a1", ConfigFn(1, "A", 0)>>, <<"a2", ConfigFn(2, "A", 0)>>>>,
     <<<<"a1", ConfigFn(1, "A", 0)>>, <<"a2", ConfigFn(2, "A", 1)>>>>}

AllDeclarations ==
    {Declaration(d, default, default_factory) :
        d \in Alternatives,
        default \in {MissingV, KeyV("foo"), KeyV("a2"), KeyV("zz"), BarInstance,
                     FrozenFooInstance},
        default_factory \in {NoFn, ClassFn("Foo"), ClassFn("Baz"), PartialFn(2, "Foo", 1),
                             PartialFn(3, "Foo", 1), ConfigFn(2, "A", 0),
                             ConfigFn(3, "A", 0), LambdaFn(1, "Bar")}}

Script(calls, tokens) ==
    [declares |-> FALSE, calls |-> calls, tokens |-> tokens, conflict_resolution |-> "auto"]

\* a program whose parser is made with conflict_resolution=ALWAYS_MERGE
Merging(calls, tokens) ==
    [Script(calls, tokens) EXCEPT !.conflict_resolution = "always_merge"]

Scripts ==
    << Script(<<TypeCall("Config", <<"config">>)>>,
              {Token(<<"ab_or_cd">>, "cd"), Token(<<"ab_or_cd", "c_or_d">>, "d"),
               Token(<<"c_or_d">>, "d"), Token(<<"d">>, "123"),
               Token(<<"c_or_d", "d">>, "123")}),
       Script(<<TypeCall("Bob", <<"bob">>)>>,
              {Token(<<"thing">>, "foo"), Token(<<"thing">>, "bar"),
               Token(<<"thing", "a">>, "123"), Token(<<"thing", "d">>, "x")}),
       Script(<<TypeCall("Node", <<"n">>)>>,
              {Token(<<"child">>, "leaf"), Token(<<"child">>, "node"),
               Token(<<"child", "child">>, "leaf")}),
       Script(<<TypeCall("Outer", <<"o">>)>>,
              {Token(<<"x">>, "5"), Token(<<"y">>, "0"), Token(<<"y">>, "1"),
               Token(<<"z">>, "5")}),
       Script(<<DefaultCall("Outer", <<"o">>, OuterInstance)>>,
              {Token(<<"y">>, "1"), Token(<<"x">>, "0")}),
       Script(<<TypeCall("Foo", <<"x">>), TypeCall("Bar", <<"x">>)>>,
              {Token(<<"a">>, "5"), Token(<<"c">>, "5")}),
       Script(<<TypeCall("Foo", <<"x">>), TypeCall("Foo", <<"x">>)>>,
              {Token(<<"a">>, "5"), Token(<<"b">>, "0")}),
       Script(<<TypeCall("Foo", <<"x">>), TypeCall("Bar", <<"y">>)>>,
              {Token(<<"a">>, "5"), Token(<<"d">>, "123"), Token(<<"q">>, "1")}),
       Script(<<TypeCall("Foo", <<"x">>), TypeCall("Foo", <<"y">>)>>,
              {Token(<<"x", "a">>, "5"), Token(<<"y", "a">>, "1"), Token(<<"a">>, "5")}),
       Script(<<TypeCall("Bad", <<"x">>)>>,
              {Token(<<"items">>, "1")}),
       Script(<<TypeCall("Quiet", <<"x">>)>>,
              {Token(<<"q">>, "1"), Token(<<"items">>, "1")}),
       Script(<<TypeCall("Holder", <<"h">>)>>,
              {Token(<<"sg">>, "bad"), Token(<<"sg">>, "quiet"), Token(<<"sg", "q">>, "1"),
               Token(<<"sg">>, "foo")}),
       Script(<<TypeCall("Foo", <<"x">>), InstanceCall(FooInstance, <<"x">>)>>,
              {Token(<<"a">>, "1")}),
       Script(<<TypeCall("Mixed", <<"m">>)>>,
              {Token(<<"w">>, "5"), Token(<<"z">>, "1"), Token(<<"thing">>, "bar"),
               Token(<<"thing", "c">>, "5")}),
       Script(<<DefaultCall("Mixed", <<"m">>, MixedInstance)>>,
              {Token(<<"thing">>, "foo"), Token(<<"thing", "d">>, "0"),
               Token(<<"w">>, "0")}),
       [Script(<<TypeCall("Dyn", <<"dyn">>)>>,
               {Token(<<"thing">>, "foo"), Token(<<"thing", "d">>, "5")})
          EXCEPT !.declares = TRUE],
       [Script(<<>>, {}) EXCEPT !.declares = TRUE],
       Script(<<TypeCall("Base", <<"base">>)>>,
              {Token(<<"a">>, "5"), Token(<<"f">>, ""), Token(<<"f">>, "false"),
               Token(<<"f">>, "True"), Token(<<"--no", "f">>, "")}),
       Script(<<TypeCall("Flags", <<"flags">>)>>,
              {Token(<<"a">>, "true"), Token(<<"--no", "a">>, ""), Token(<<"b">>, "false"),
               Token(<<"c">>, ""), Token(<<"--no", "c">>, "")}),
       Script(<<TypeCall("Base", <<"base">>)>>,
              {Token(<<"a">>, "0"), Token(<<"a">>, "123"), Token(<<"f">>, "True"),
               Token(<<"f">>, "False")}),
       Script(<<TypeCall("Flags", <<"flags">>)>>,
              {Token(<<"a">>, "True"), Token(<<"a">>, "False"), Token(<<"b">>, "True"),
               Token(<<"b">>, "False"), Token(<<"c">>, "True"), Token(<<"c">>, "False")}),
       Merging(<<TypeCall("HyperParameters", <<"hparams">>)>>,
               {Tokens(<<"num_layers">>, <<"5", "0", "123">>), Token(<<"num_layers">>, "5"),
                Tokens(<<"num_layers">>, <<"5", "0">>), Token(<<"num_units">>, "1"),
                Tokens(<<"use_likes">>, <<"False", "True", "True">>)}),
       Merging(<<TypeCall("Foo", <<"x">>), TypeCall("Foo", <<"y">>)>>,
               {Token(<<"a">>, "5"), Tokens(<<"a">>, <<"5", "0">>), Token(<<"b">>, "0")}),
       Merging(<<TypeCall("Foo", <<"x">>), DefaultCall("Foo", <<"y">>, FooInstance)>>,
               {Token(<<"a">>, "0"), Tokens(<<"b">>, <<"0", "1">>)}),
       Merging(<<DefaultCall("Foo", <<"x">>, FooInstance), TypeCall("Foo", <<"y">>)>>,
               {Token(<<"a">>, "0"), Tokens(<<"b">>, <<"0", "1">>)}),
       Merging(<<DefaultCall("Foo", <<"x">>, FooInstance),
                 DefaultCall("Foo", <<"y">>, InstV("Foo", ("a" :> IntV(0)) @@ ("b" :> IntV(123))))>>,
               {Token(<<"a">>, "0"), Tokens(<<"b">>, <<"0", "1">>)}),
       Script(<<TypeCall("Bob", <<"bob">>), TypeCall("Bob", <<"bob">>)>>,
              {Token(<<"thing">>, "foo"), Token(<<"thing", "a">>, "5")}),
       Merging(<<TypeCall("Foo", <<"x">>), TypeCall("Foo", <<"y">>),
                 TypeCall("Bob", <<"bob">>)>>,
               {Token(<<"a">>, "5"), Token(<<"thing">>, "foo")}),
       Script(<<TypeCall("Req", <<"bob">>)>>,
              {Token(<<"thing">>, "foo"), Token(<<"thing">>, "req"),
               Token(<<"thing", "some_required_arg">>, "5"),
               Token(<<"thing", "some_required_arg">>, "0"),
               Token(<<"thing", "a">>, "123")}),
       Script(<<TypeCall("Two", <<"bob">>)>>,
              {Token(<<"first">>, "foo"), Token(<<"second">>, "baz"),
               Token(<<"first", "a">>, "5"), Token(<<"second", "a">>, "0"),
               Token(<<"second", "b">>, "123")}),
       Script(<<ArgumentCall("seed", IntV(0)), TypeCall("Bob", <<"bob">>),
                ArgumentCall("lr", NoneV)>>,
              {Token(<<"seed">>, "5"), Token(<<"lr">>, "1"), Token(<<"thing">>, "foo"),
               Token(<<"thing", "a">>, "123")}),
       Script(<<ArgumentCall("seed", IntV(0)), TypeCall("Foo", <<"x">>),
                ArgumentCall("seed", IntV(1)), ArgumentCall("a", IntV(0))>>,
              {Token(<<"seed">>, "5"), Token(<<"a">>, "1")}),
       Script(<<DefaultCall("Inner", <<"i">>,
                            DictV(("y" :> IntV(5)) @@ ("deep" :> DeepInstance))),
                DefaultCall("Inner", <<"j">>, InnerInstance)>>,
              {Token(<<"i", "y">>, "1"), Token(<<"j", "y">>, "1"), Token(<<"y">>, "1"),
               Token(<<"z">>, "0")}),
       Script(<<TypeCall("Mixed", <<"m">>)>>,
              {Token(<<"help">>, ""), Token(<<"thing">>, "bar"), Token(<<"thing", "c">>, "5"),
               Token(<<"thing">>, "baz")}),
       Script(<<TypeCall("Config", <<"config">>)>>,
              {Token(<<"help">>, ""), Token(<<"ab_or_cd">>, "cd")}),
       Script(<<TypeCall("Foo", <<"x">>)>>,
              {Token(<<"help">>, ""), Token(<<"a">>, "5")}),
       Script(<<TypeCall("Opt", <<"o">>), TypeCall("Strict", <<"s">>)>>,
              {Token(<<"x">>, "5"), Token(<<"o", "r">>, "1"), Token(<<"s", "r">>, "1"),
               Token(<<"s", "needs", "n">>, "0")}) >>

\* the longest command line explored
MaxArgs == 3

\* the longest chain of parsers explored
MaxParsers == 6

NoError == [type |-> "", field |-> ""]

Init ==
    /\ script \in 1..Len(Scripts)
    /\ decl = NoDeclaration
    /\ declared = NoSubgroups
    /\ pending = Scripts[script].calls
    /\ reg_log = <<>>
    /\ args = <<>>
    /\ parsers = <<[NewParser(<<>>) EXCEPT
                      !.conflict_resolution = Scripts[script].conflict_resolution]>>
    /\ FieldWrapper_argument_generation_mode = "flat"
    /\ cur = 1
    /\ pc = IF Scripts[script].declares THEN "declare" ELSE "register"
    /\ rounds = 0
    /\ parsed_args = EmptyMap
    /\ unparsed_args = <<>>
    /\ todo = <<>>
    /\ log = <<>>
    /\ err = NoError

\* the exception e (about field f) ends the session
Fail(e, f) ==
    /\ pc' = "error"
    /\ err' = [type |-> e, field |-> f]

\* r: what subgroups() returned, or raised
Declared(r) ==
    /\ declared' = r
    /\ IF r.ok THEN pc' = "register" /\ err' = err
       ELSE Fail(r.err, "thing")

\* the class statement of Dyn runs: its field is declared with subgroups()
Declare ==
    /\ pc = "declare"
    /\ \E d \in IF Scripts[script].calls = <<>> THEN AllDeclarations ELSE Declarations :
          /\ decl' = d
          /\ Declared(subgroups(d.alternatives, d.default, d.default_factory))
    /\ UNCHANGED <<FieldWrapper_argument_generation_mode, script, pending, reg_log, args,
                   parsers, cur, rounds, parsed_args, unparsed_args, todo, log>>

\* r: what add_arguments returned, or raised
Registered(r) ==
    /\ parsers' = [parsers EXCEPT ![1] = r.p]
    /\ reg_log' = Append(reg_log, [ok |-> r.ok, err |-> r.err, field |-> r.field,
                                   call |-> Head(pending)])

\* parser.add_arguments(...) or parser.add_argument(...) called by the
\* program; a raise is caught and
\* the program goes on
Register ==
    /\ pc = "register"
    /\ pending # <<>>
    /\ Registered(add_arguments_call(parsers[1], Head(pending)))
    /\ pending' = Tail(pending)
    /\ UNCHANGED <<FieldWrapper_argument_generation_mode, script, decl,
                   declared, args, cur, pc, rounds, parsed_args, unparsed_args,
                   todo, log, err>>

\* one more token on the command line
AddArg ==
    /\ pc = "register"
    /\ pending = <<>>
    /\ Len(args) < MaxArgs
    /\ \E t \in Scripts[script].tokens : args' = Append(args, t)
    /\ UNCHANGED <<FieldWrapper_argument_generation_mode, script, decl,
                   declared, pending, reg_log, parsers, cur, pc, rounds, parsed_args,
                   unparsed_args, todo, log, err>>

\* parser.parse_known_args(args) is called
ParseKnownArgs ==
    /\ pc = "register"
    /\ pending = <<>>
    /\ pc' = "preprocessing"
    /\ UNCHANGED <<FieldWrapper_argument_generation_mode, script, decl,
                   declared, pending, reg_log, args, parsers, cur, rounds,
                   parsed_args, unparsed_args, todo, log, err>>

\* the destinations in parent.subgroups, over the parents of parser c
ParentSubgroups(ps, c) ==
    UNION {{ps[q].subgroups[i].dest : i \in 1..Len(ps[q].subgroups)} :
             q \in Range(ps[c].parents)}

Preprocessed(r) ==
    IF r.ok
    THEN /\ parsers' = [parsers EXCEPT ![cur] = r.p]
         /\ pc' = "argparse"
         /\ err' = err
    ELSE /\ Fail(r.err, "")
         /\ parsers' = parsers

\* line 254
Preprocessing ==
    /\ pc = "preprocessing"
    /\ Preprocessed(preprocessing(parsers[cur], ParentSubgroups(parsers, cur)))
    /\ UNCHANGED <<FieldWrapper_argument_generation_mode, script, decl,
                   declared, pending, reg_log, args, cur, rounds, parsed_args,
                   unparsed_args, todo, log>>

\* (a variant in which the extras of the first round are the ones returned)
parsed_first_extras(r) ==
    IF r.ok
    THEN /\ parsed_args' = r.ns
         /\ unparsed_args' = IF rounds = 0 THEN r.extras ELSE unparsed_args
         /\ pc' = IF Len(parsers[cur].subgroups) > 0 THEN "subgroups"
                  ELSE "postprocessing"
         /\ err' = err
    ELSE /\ Fail(r.err, "")
         /\ UNCHANGED <<parsed_args, unparsed_args>>

Parsed(r) ==
    IF r.ok
    THEN /\ parsed_args' = r.ns
         /\ unparsed_args' = r.extras
         /\ pc' = IF Len(parsers[cur].subgroups) > 0 THEN "subgroups"
                  ELSE "postprocessing"
         /\ err' = err
    ELSE /\ Fail(r.err, "")
         /\ UNCHANGED <<parsed_args, unparsed_args>>

\* line 258: one round trip to argparse
ParseArgs ==
    /\ pc = "argparse"
    /\ Parsed(argparse_parse_known_args(parsers[cur].actions, args))
    /\ rounds' = rounds + 1
    /\ UNCHANGED <<FieldWrapper_argument_generation_mode, script, decl,
                   declared, pending, reg_log, args, parsers, cur, todo, log>>

Resolved(r) ==
    IF r.ok
    THEN /\ parsers' = Append(parsers, r.p)
         /\ cur' = cur + 1
         /\ pc' = "preprocessing"
         /\ err' = err
    ELSE /\ Fail(r.err, r.field)
         /\ UNCHANGED <<parsers, cur>>

\* lines 260-294: the child parser is built and takes over
ResolveSubgroups ==
    /\ pc = "subgroups"
    /\ Len(parsers) < MaxParsers
    /\ Resolved(child_parser(parsers[cur], cur, parsed_args))
    /\ FieldWrapper_argument_generation_mode' = parsers[cur].argument_generation_mode
    /\ UNCHANGED <<script, decl, declared, pending, reg_log, args, rounds, parsed_args,
                   unparsed_args, todo, log>>

Consumed(r) ==
    /\ parsers' = [parsers EXCEPT ![cur] = r.p]
    /\ parsed_args' = r.ns

\* line 468
ConsumeConstructorArguments ==
    /\ pc = "postprocessing"
    /\ Consumed(consume_constructor_arguments(parsers[cur], parsed_args))
    /\ todo' = construction_order(parsers[cur].wrappers)
    /\ pc' = "instances"
    /\ UNCHANGED <<FieldWrapper_argument_generation_mode, script, decl,
                   declared, pending, reg_log, args, cur, rounds, unparsed_args,
                   log, err>>

\* r: what the iteration did with node w
InstanceSet(w, r) ==
    /\ log' = Append(log, [parser |-> cur, w |-> Head(todo).w,
                           dest |-> Head(todo).dest,
                           dataclass |-> w.dataclass, level |-> nesting_level(w),
                           optional |-> w.optional,
                           ok |-> r.ok, constructed |-> r.constructed,
                           kw |-> r.kw, instance |-> r.instance])
    /\ IF r.ok
       THEN /\ parsers' = [parsers EXCEPT ![cur].constructor_arguments = r.ca]
            /\ parsed_args' = r.ns
            /\ todo' = Tail(todo)
            /\ UNCHANGED <<pc, err>>
       ELSE /\ Fail(r.err, "")
            /\ UNCHANGED <<parsers, parsed_args, todo>>

\* one iteration of the loops of _set_instances_in_namespace
SetInstance ==
    /\ pc = "instances"
    /\ todo # <<>>
    /\ InstanceSet(parsers[cur].wrappers[Head(todo).w],
                   set_instance(parsers[cur].wrappers[Head(todo).w], Head(todo).dest,
                                parsers[cur].constructor_arguments, parsed_args))
    /\ UNCHANGED <<FieldWrapper_argument_generation_mode, script, decl,
                   declared, pending, reg_log, args, cur, rounds, unparsed_args>>

\* line 572, and the return to the parser that made this one (line 294)
Return ==
    /\ pc = "instances"
    /\ todo = <<>>
    /\ IF DOMAIN parsers[cur].constructor_arguments # {}
       THEN /\ Fail("AssertionError", "")
            /\ cur' = cur
       ELSE /\ err' = err
            /\ IF cur > 1
               THEN /\ cur' = cur - 1
                    /\ pc' = "postprocessing"
               ELSE /\ cur' = cur
                    /\ pc' = "done"
    /\ UNCHANGED <<FieldWrapper_argument_generation_mode, script, decl,
                   declared, pending, reg_log, args, parsers, rounds, parsed_args,
                   unparsed_args, todo, log>>

\* r: what this _preprocessing() call returned, or raised
Reprocessed(r) ==
    IF r.ok
    THEN /\ parsers' = [parsers EXCEPT ![1] = r.p]
         /\ pc' = "code"
         /\ err' = err
    ELSE /\ Fail(r.err, "")
         /\ parsers' = parsers

\* lines 359-377: after the parse the program asks the parser for its
\* equivalent argparse code, which runs _preprocessing() once more
EquivalentArgparseCode ==
    /\ pc = "done"
    /\ Reprocessed(preprocessing(parsers[1], ParentSubgroups(parsers, 1)))
    /\ UNCHANGED <<FieldWrapper_argument_generation_mode, script, decl,
                   declared, pending, reg_log, args, cur, rounds, parsed_args,
                   unparsed_args, todo, log>>

\* argparse's parse_args: parse_known_args returned, and tokens are left
UnrecognizedArguments ==
    /\ pc = "done"
    /\ unparsed_args # <<>>
    /\ Fail("unrecognized_arguments", "")
    /\ UNCHANGED <<FieldWrapper_argument_generation_mode, script, decl, declared, pending,
                   reg_log, args, parsers, cur, rounds, parsed_args, unparsed_args, todo, log>>

Next ==
    \/ Declare
    \/ Register
    \/ AddArg
    \/ ParseKnownArgs
    \/ Preprocessing
    \/ ParseArgs
    \/ ResolveSubgroups
    \/ ConsumeConstructorArguments
    \/ SetInstance
    \/ Return
    \/ EquivalentArgparseCode
    \/ UnrecognizedArguments

Spec == Init /\ [][Next]_vars

\* lines 98-115: the program makes another parser, with its own argument
\* generation mode, before it parses with the first one
OtherParser ==
    /\ pc = "register"
    /\ pending = <<>>
    /\ \E mode \in {"flat", "nested"} : FieldWrapper_argument_generation_mode' = mode
    /\ UNCHANGED <<script, decl, declared, pending, reg_log, args, parsers, cur, pc, rounds,
                   parsed_args, unparsed_args, todo, log, err>>

TwoParsersNext ==
    \/ Next
    \/ OtherParser

TwoParsersSpec == Init /\ [][TwoParsersNext]_vars

(***************************************************************************)
(* Properties.                                                             *)
(***************************************************************************)
Terminated == pc \in {"done", "error"}

\* the raw value of the last token of option opt, else dflt
LastRaw(opt, dflt) ==
    IF \E i \in 1..Len(args) : args[i].opt = opt
    THEN args[CHOOSE i \in 1..Len(args) :
                /\ args[i].opt = opt
                /\ \A j \in (i + 1)..Len(args) : args[j].opt # opt].raw
    ELSE dflt

Given(opt) == \E i \in 1..Len(args) : args[i].opt = opt

\* the sessions that register one schema, cls, at its destination
SessionOf(cls) ==
    /\ Len(Scripts[script].calls) = 1
    /\ Scripts[script].calls[1].dataclass = cls
    /\ Scripts[script].calls[1].default = NoneV

\* the class the tokens choose for Config.ab_or_cd, the subgroup field of
\* that class, and the class the tokens choose for it
ChosenBranch == Lookup(fields("Config")[1].alternatives, LastRaw(<<"ab_or_cd">>, "ab")).cls

ChosenNested(field) ==
    Lookup(field.alternatives,
           LastRaw(<<"ab_or_cd", field.name>>, field.default_key.s)).cls

\* C1: parsing tokens that choose a branch of a subgroup, and a branch of
\* the subgroup nested in it, ends normally with an object graph whose
\* subgroup fields hold instances of the chosen (or default) alternatives
C1_NestedSubgroupGraph ==
    (SessionOf("Config") /\ Terminated /\ Given(<<"ab_or_cd">>)) =>
        /\ pc = "done"
        /\ <<"config">> \in DOMAIN parsed_args
        /\ parsed_args[<<"config">>].s = "Config"
        /\ parsed_args[<<"config">>].kw["ab_or_cd"].s = ChosenBranch
        /\ parsed_args[<<"config">>].kw["ab_or_cd"].kw[fields(ChosenBranch)[1].name].s
             = ChosenNested(fields(ChosenBranch)[1])

\* C2: a subgroup definition whose every branch introduces a new unresolved
\* subgroup (the tokens never choose the leaf) ends, after at most 100
\* rounds, with the round-bound error
C2_RoundBoundError ==
    /\ rounds <= 100
    /\ (SessionOf("Node") /\ Terminated /\ \A i \in 1..Len(args) : args[i].raw # "leaf")
          => (pc = "error" /\ err.type = "RoundsExceeded")

\* the parsers whose postprocessing pass is over
PassOver(q) ==
    \/ pc \in {"done", "code"}
    \/ q > cur
    \/ q = cur /\ pc = "instances" /\ todo = <<>>

Destinations(p) ==
    UNION {Range(p.wrappers[i].destinations) : i \in 1..Len(p.wrappers)}

\* C3: when a postprocessing pass has processed every node, the bag of the
\* parser is empty (the assertion of line 572 never fails) and every
\* destination of the parser was drained exactly once in the pass
C3_BagDrained ==
    /\ err.type # "AssertionError"
    /\ \A q \in 1..Len(parsers) :
          PassOver(q) =>
             /\ DOMAIN parsers[q].constructor_arguments = {}
             /\ \A d \in Destinations(parsers[q]) :
                   Cardinality({k \in 1..Len(log) :
                                  log[k].parser = q /\ log[k].dest = d}) = 1

\* C3 witness: a parse with a child parser and a nested node ended normally
C3_Witness ==
    /\ pc = "done"
    /\ Len(parsers) = 2
    /\ \E k \in 1..Len(log) : log[k].level > 0 /\ log[k].parser = 1

\* C4: within a postprocessing pass the nodes are processed deepest nesting
\* level first, and nodes of equal level in the order of the node list (a
\* node of several destinations once for each of them)
C4_DeepestFirst ==
    \A i, j \in 1..Len(log) :
        (i < j /\ log[i].parser = log[j].parser) =>
            \/ log[i].level > log[j].level
            \/ log[i].level = log[j].level /\ log[i].w < log[j].w
            \/ log[i].w = log[j].w /\ log[i].dest # log[j].dest

\* C4 witness: a pass that processed a deeper node and then two nodes of
\* equal level
C4_Witness ==
    \E i, j, k \in 1..Len(log) :
        /\ i < j /\ j < k
        /\ log[i].parser = log[j].parser /\ log[j].parser = log[k].parser
        /\ log[i].level > log[j].level
        /\ log[j].level = log[k].level

\* C5: whenever a constructor is invoked, every value of its keyword map
\* is instantiated: no field holds the raw discriminator key of a subgroup
C5_NeverRawKey ==
    \A i \in 1..Len(log) :
        log[i].constructed => \A n \in DOMAIN log[i].kw : log[i].kw[n].tag # "key"

\* the default of the field called n of node w: the option's default for
\* an attribute, the field's default for a nested node
OwnDefault(w, n) ==
    IF \E k \in 1..Len(w.fields) : w.fields[k].name = n
    THEN w.fields[CHOOSE k \in 1..Len(w.fields) : w.fields[k].name = n].default
    ELSE default_value(Named(fields(w.dataclass), n))

\* C6: an optional node is absent exactly when every value of its keyword
\* map equals the field's default; otherwise its constructor is invoked
C6_AbsentIffAllDefault ==
    \A i \in 1..Len(log) :
        (log[i].optional /\ log[i].ok) =>
            (log[i].constructed <=>
                ~\A n \in DOMAIN log[i].kw :
                    log[i].kw[n] = OwnDefault(parsers[log[i].parser].wrappers[log[i].w], n))

\* C7: a registration at a destination that an accepted earlier
\* registration uses is rejected, and the registered destinations are
\* pairwise distinct
C7_DestinationsDistinct ==
    /\ \A j, k \in 1..Len(reg_log) :
          (j < k /\ reg_log[j].ok /\ reg_log[j].call.dest = reg_log[k].call.dest)
             => ~reg_log[k].ok
    /\ pc = "register" =>
          \A i, j \in 1..Len(parsers[1].wrappers) :
             i # j => parsers[1].wrappers[i].dest # parsers[1].wrappers[j].dest

Containers(cls) ==
    {fields(cls)[i].name : i \in {k \in 1..Len(fields(cls)) :
                                    fields(cls)[k].kind = "container"}}

InitContainers(cls) ==
    {fields(cls)[i].name : i \in {k \in 1..Len(fields(cls)) :
                                    fields(cls)[k].kind = "container" /\ fields(cls)[k].init}}

ChosenClasses(p) ==
    {Lookup(p.subgroups[i].subgroups, parsed_args[p.subgroups[i].dest].s).cls :
        i \in {k \in 1..Len(p.subgroups) : IsStr(parsed_args[p.subgroups[k].dest])}}

ConfiguredKey(f) ==
    IF f.default_key.tag # "missing" THEN f.default_key
    ELSE IF f.default_factory.kind = "missing" THEN MissingV
    ELSE KeyV(f.alternatives[CHOOSE i \in 1..Len(f.alternatives) :
                               f.alternatives[i][2] = f.default_factory][1])

C10_InstanceDefault ==
    (/\ SessionOf("Dyn")
     /\ Terminated
     /\ IsInst(decl.default) /\ decl.default_factory = NoFn
     /\ ~Given(<<"thing">>)) =>
        /\ pc = "done"
        /\ parsed_args[<<"dyn">>].kw["thing"].s = decl.default.s

\* the class statement has just run: subgroups() returned or raised
JustDeclared ==
    /\ decl # NoDeclaration
    /\ reg_log = <<>>
    /\ rounds = 0
    /\ pc \in {"register", "error"}

\* the positions of the dict d whose value is f: by identity when there is
\* such a position, else by equality
Matches(d, f) ==
    IF \E i \in 1..Len(d) : Is(d[i][2], f)
    THEN {i \in 1..Len(d) : Is(d[i][2], f)}
    ELSE {i \in 1..Len(d) : Eq(d[i][2], f)}

BothGiven == decl.default # MissingV /\ decl.default_factory # NoFn

DefaultNotAKey ==
    /\ decl.default # MissingV
    /\ ~(IsStr(decl.default) /\ HasKey(decl.alternatives, decl.default.s))

HasLambda == \E i \in 1..Len(decl.alternatives) : decl.alternatives[i][2].kind = "lambda"

HasFunction ==
    \E i \in 1..Len(decl.alternatives) :
        decl.alternatives[i][2].kind \in {"lambda", "function"}

FactoryNotAValue ==
    /\ decl.default_factory # NoFn
    /\ ~\E i \in 1..Len(decl.alternatives) : Eq(decl.alternatives[i][2], decl.default_factory)

FactoryAmbiguous ==
    /\ decl.default_factory # NoFn
    /\ Cardinality(Matches(decl.alternatives, decl.default_factory)) > 1

C20_SubgroupsMetadata ==
    /\ (JustDeclared /\ declared.ok) =>
          /\ declared.subgroups = decl.alternatives
          /\ declared.choices = Keys(decl.alternatives)
          /\ decl.default # MissingV =>
                /\ declared.subgroup_default = decl.default
                /\ declared.default_factory = Lookup(decl.alternatives, decl.default.s)
          /\ decl.default_factory # NoFn =>
                /\ Matches(decl.alternatives, decl.default_factory)
                     = {i \in 1..Len(decl.alternatives) :
                          KeyV(decl.alternatives[i][1]) = declared.subgroup_default}
                /\ declared.default_factory = decl.default_factory
          /\ (decl.default = MissingV /\ decl.default_factory = NoFn) =>
                /\ declared.subgroup_default = MissingV
                /\ declared.default_factory = NoFn
    /\ (/\ JustDeclared
        /\ decl.default_factory # NoFn
        /\ decl.default = MissingV
        /\ ~HasFunction
        /\ Cardinality({i \in 1..Len(decl.alternatives) :
                          Is(decl.alternatives[i][2], decl.default_factory)}) = 1)
         => declared.ok

\* C20 witness: the default_factory is identical to one value of the dict
\* and equal to another one
C20_Witness ==
    /\ JustDeclared
    /\ declared.ok
    /\ decl.default_factory # NoFn
    /\ Cardinality({i \in 1..Len(decl.alternatives) :
                      Eq(decl.alternatives[i][2], decl.default_factory)}) = 2
    /\ declared.subgroup_default = KeyV("a2")

\* C16: _preprocessing() run again on a parser that is already
\* preprocessed (and whose subgroups are resolved) is a no-op: no option is
\* registered, no node added, no destination changed
C16_PreprocessingIdempotent ==
    [][(pc = "done" /\ err'.type # "unrecognized_arguments") =>
         (pc' = "code" /\ parsers' = parsers)]_vars

\* C16 witness: _preprocessing() has run again after a parse that resolved
\* a subgroup and built a nested node
C16_Witness ==
    /\ pc = "code"
    /\ Len(parsers) = 2
    /\ \E i \in 1..Len(parsers[1].wrappers) : parsers[1].wrappers[i].children # <<>>

\* the boolean fields of class cls
BoolNames(cls) == {fields(cls)[k].name : k \in {j \in 1..Len(fields(cls)) : fields(cls)[j].cls = "bool"}}

\* the positions of the tokens that assert or negate the flag called name
Occurrences(name) == {i \in 1..Len(args) : args[i].opt \in {<<name>>, <<"--no", name>>}}

\* what the last occurrence of the flag called name says
LastSays(name) ==
    LET t == args[CHOOSE i \in Occurrences(name) : \A j \in Occurrences(name) : j <= i]
    IN  IF t.opt = <<"--no", name>> THEN FALSE
        ELSE t.raw \in {"", "true", "True"}

\* C14: a boolean field has an assert option and a negate option for one
\* destination, and when both occur (or one occurs several times) the
\* parsed value is the one of the last occurrence
C14_LastOccurrenceWins ==
    \A cls \in {"Base", "Flags"} :
       (SessionOf(cls) /\ pc = "done") =>
          \A name \in BoolNames(cls) :
             Occurrences(name) # {} =>
                parsed_args[Scripts[script].calls[1].dest].kw[name] = BoolV(LastSays(name))

\* C14 witness: `--f --f false` gives f = False, and `--a true --c --noc`
\* gives c = False
C14_Witness ==
    \/ /\ SessionOf("Base") /\ pc = "done"
       /\ args = <<Token(<<"f">>, ""), Token(<<"f">>, "false")>>
       /\ parsed_args[<<"base">>].kw["f"] = BoolV(FALSE)
    \/ /\ SessionOf("Flags") /\ pc = "done"
       /\ args = <<Token(<<"a">>, "true"), Token(<<"c">>, ""), Token(<<"--no", "c">>, "")>>
       /\ parsed_args[<<"flags">>].kw["c"] = BoolV(FALSE)

\* the option a parser's own settings give a field
own_option(p, fw) == IF p.argument_generation_mode = "nested" THEN fw.dest ELSE fw.option

\* C18: whatever other parser the program makes between the registration
\* and the parse of the first parser, the first parser's options are the
\* ones its own settings give, and tokens that name every field of the
\* schema Base by its flat option are all recognised
C18_NoSharedState ==
    /\ parsers[1].preprocessing_done =>
          \A i \in 1..Len(parsers[1].actions) :
             parsers[1].actions[i].option
               = own_option(parsers[1], all_fields(parsers[1].wrappers, 1)[i])
    /\ (SessionOf("Base") /\ pc = "done"
          /\ args = <<Token(<<"a">>, "5"), Token(<<"f">>, "True")>>) =>
          /\ unparsed_args = <<>>
          /\ parsed_args[<<"base">>].kw["f"] = BoolV(TRUE)

\* the tokens that the options of the last parser of the chain, the fully
\* expanded one, do not recognise
Unrecognised ==
    SelectSeq(args, LAMBDA t : ~Recognised(parsers[Len(parsers)].actions, t.opt))

\* C15: the unrecognized-argument error names exactly the tokens that the
\* fully expanded options do not recognise, it is raised only once every
\* subgroup is resolved and the instances are built, a parse that leaves
\* tokens fails when the program asked for all of them to be parsed, and
\* `--thing foo --thing.a 123` is parsed without error though the first
\* round does not know `--thing.a`
C15_UnrecognizedArgument ==
    /\ [](/\ err.type = "unrecognized_arguments" =>
               /\ pc = "error"
               /\ cur = 1
               /\ parsers[Len(parsers)].subgroups = <<>>
               /\ unparsed_args # <<>>
               /\ unparsed_args = Unrecognised
          /\ (pc = "done" /\ Len(parsers) > 1) => unparsed_args = Unrecognised
          /\ (SessionOf("Bob") /\ Terminated
                /\ args = <<Token(<<"thing">>, "foo"), Token(<<"thing", "a">>, "123")>>) =>
                (pc = "done" /\ unparsed_args = <<>> /\ rounds = 2))
    /\ [][(pc = "done" /\ unparsed_args # <<>> /\ pc' \notin {"done", "code"}) =>
             (pc' = "error" /\ err'.type = "unrecognized_arguments")]_vars

\* C15 witness: `--thing foo --thing.a 123 --thing.d x` fails on `--thing.d`
C15_Witness ==
    /\ SessionOf("Bob")
    /\ args = <<Token(<<"thing">>, "foo"), Token(<<"thing", "a">>, "123"),
                Token(<<"thing", "d">>, "x")>>
    /\ err.type = "unrecognized_arguments"
    /\ unparsed_args = <<Token(<<"thing", "d">>, "x")>>
    /\ Len(parsers) = 2

\* the values of a leaf field of the instances rendered
ValuesOf(f) ==
    IF f.cls = "bool" THEN {BoolV(TRUE), BoolV(FALSE)} ELSE {IntV(0), IntV(123)}

\* the instances of the leaf-only class cls
InstancesOf(cls) ==
    {InstV(cls, kw) : kw \in {m \in [Names(fields(cls)) -> {BoolV(TRUE), BoolV(FALSE),
                                                             IntV(0), IntV(123)}] :
                                 \A n \in Names(fields(cls)) :
                                    m[n] \in ValuesOf(Named(fields(cls), n))}}

\* the canonical command line of an instance: one option per field, in the
\* order of the fields, with the field's value
Rendering(cls, inst) ==
    [k \in 1..Len(fields(cls)) |->
       Token(<<fields(cls)[k].name>>, str(inst.kw[fields(cls)[k].name]))]

Merged == Scripts[script].conflict_resolution = "always_merge" /\ pc = "done"

\* the nodes of the first parser that have several destinations
MergedNodes ==
    {i \in 1..Len(parsers[1].wrappers) : Len(parsers[1].wrappers[i].destinations) > 1}

\* the instance the parse made for destination d (of one or two names)
InstanceAt(d) ==
    IF Len(d) = 1 THEN parsed_args[d] ELSE GetAttr(parsed_args[<<d[1]>>], d[2])

\* the values of the last token of option opt
LastValues(opt) ==
    LET t == args[CHOOSE i \in 1..Len(args) :
                    /\ args[i].opt = opt
                    /\ \A j \in (i + 1)..Len(args) : args[j].opt # opt]
    IN  <<t.raw>> \o t.more

\* the value a raw string stands for, for the field fw
ValueOf(fw, raw) == IF fw.type = "bool" THEN str2bool(raw).v ELSE int(raw).v

\* C11 (as stated): after a parse under ALWAYS_MERGE, the destinations of a
\* merged node all hold equal values for each of its fields
C11_MergedValuesEqual ==
    Merged =>
       \A i \in MergedNodes : \A k \in 1..Len(parsers[1].wrappers[i].fields) :
          \A d, e \in Range(parsers[1].wrappers[i].destinations) :
             InstanceAt(d).kw[parsers[1].wrappers[i].fields[k].name]
               = InstanceAt(e).kw[parsers[1].wrappers[i].fields[k].name]

\* C11 (amended): after a parse under ALWAYS_MERGE, when the last
\* occurrence of the option of a merged field carries one value, every
\* destination of the merged node holds that value for the field
C11_SingleValueBroadcast ==
    Merged =>
       \A i \in MergedNodes : \A k \in 1..Len(parsers[1].wrappers[i].fields) :
          LET w == parsers[1].wrappers[i]
              fw == w.fields[k]
          IN  (Given(fw.option) /\ Len(LastValues(fw.option)) = 1) =>
                 \A d \in Range(w.destinations) :
                    InstanceAt(d).kw[fw.name] = ValueOf(fw, LastValues(fw.option)[1])

\* C11 witness: `--num_layers 5` has given 5 to the three tasks, whose
\* other fields differ
C11_Witness ==
    /\ Merged
    /\ args = <<Token(<<"num_layers">>, "5")>>
    /\ \A d \in {"gender", "age_group", "personality"} :
          parsed_args[<<"hparams">>].kw[d].kw["num_layers"] = IntV(5)
    /\ parsed_args[<<"hparams">>].kw["gender"] # parsed_args[<<"hparams">>].kw["age_group"]

\* C12: after a parse under ALWAYS_MERGE, when the last occurrence of the
\* option of a merged field carries as many values as the merged node has
\* destinations, the j-th destination holds the j-th value
C12_IthValueToIthDestination ==
    Merged =>
       \A i \in MergedNodes : \A k \in 1..Len(parsers[1].wrappers[i].fields) :
          LET w == parsers[1].wrappers[i]
              fw == w.fields[k]
          IN  (Given(fw.option) /\ Len(LastValues(fw.option)) = Len(w.destinations)) =>
                 \A j \in 1..Len(w.destinations) :
                    InstanceAt(w.destinations[j]).kw[fw.name]
                      = ValueOf(fw, LastValues(fw.option)[j])

\* C12 witness: `--num_layers 5 0 123` has given 5, 0 and 123 to gender,
\* age_group and personality
C12_Witness ==
    /\ Merged
    /\ args = <<Tokens(<<"num_layers">>, <<"5", "0", "123">>)>>
    /\ parsers[1].wrappers[2].destinations
         = <<<<"hparams", "gender">>, <<"hparams", "age_group">>,
             <<"hparams", "personality">>>>
    /\ parsed_args[<<"hparams">>].kw["gender"].kw["num_layers"] = IntV(5)
    /\ parsed_args[<<"hparams">>].kw["age_group"].kw["num_layers"] = IntV(0)
    /\ parsed_args[<<"hparams">>].kw["personality"].kw["num_layers"] = IntV(123)

\* the default instance of destination d: the default given at its
\* registration, else the default of the field it is the value of, else
\* the instance of the defaults of its dataclass
DefaultAt(d) ==
    LET call == Scripts[script].calls[CHOOSE c \in 1..Len(Scripts[script].calls) :
                                         Scripts[script].calls[c].dest = <<d[1]>>]
        root == IF call.default.tag = "inst" THEN call.default
                ELSE DefaultInst(call.dataclass, MaxNesting)
    IN  IF Len(d) = 1 THEN root ELSE GetAttr(root, d[2])

\* C13: under ALWAYS_MERGE, the j-th entry of the defaults of a merged
\* node is the default of its j-th destination, and after a parse every
\* field that the command line does not give holds, at each destination,
\* the value it has in that destination's default
C13_DefaultsFollowDestinations ==
    /\ (Scripts[script].conflict_resolution = "always_merge" /\ parsers[1].preprocessing_done) =>
          \A i \in MergedNodes :
             LET w == parsers[1].wrappers[i]
             IN  \A j \in 1..Len(w.destinations) :
                    \/ /\ j <= Len(w.defaults)
                       /\ w.defaults[j] = DefaultAt(w.destinations[j])
                    \/ /\ w.defaults = <<>>
                       /\ \A c \in 1..Len(Scripts[script].calls) :
                             Scripts[script].calls[c].default.tag # "inst"
    /\ Merged =>
          \A i \in MergedNodes : \A k \in 1..Len(parsers[1].wrappers[i].fields) :
             LET w == parsers[1].wrappers[i]
                 fw == w.fields[k]
             IN  ~Given(fw.option) =>
                    \A d \in Range(w.destinations) :
                       InstanceAt(d).kw[fw.name] = GetAttr(DefaultAt(d), fw.name)

\* the calls of the registrations so far that were accepted
Accepted == SelectSeq(reg_log, LAMBDA e : e.ok)

\* the add_arguments calls among them
AcceptedNodes == SelectSeq(Accepted, LAMBDA e : e.call.method = "add_arguments")

\* C30: a rejected registration leaves the session as it was: the nodes
\* and the calls kept for the later parsers are those of the accepted
\* registrations, in order, and no later parser fails on a call that was
\* rejected
C30_RejectedLeavesUnchanged ==
    /\ parsers[1].replay = [k \in 1..Len(Accepted) |-> Accepted[k].call]
    /\ ~parsers[1].preprocessing_done =>
          [i \in 1..Len(parsers[1].wrappers) |-> parsers[1].wrappers[i].dest]
            = [k \in 1..Len(AcceptedNodes) |-> AcceptedNodes[k].call.dest]
    /\ (rounds >= 1 /\ pc = "error") => err.type # "ArgumentError"

\* C29: every parser made inside parse_known_args runs with the configuration
\* of the parser the program made: the same conflict-resolution strategy, the
\* same argument-generation mode, and the same registrations replayed in the
\* same order before its own
C29_SameConfiguration ==
    \A q \in 2..Len(parsers) :
        /\ parsers[q].conflict_resolution = parsers[1].conflict_resolution
        /\ parsers[q].argument_generation_mode = parsers[1].argument_generation_mode
        /\ Len(parsers[q].replay) >= Len(parsers[q - 1].replay)
        /\ SubSeq(parsers[q].replay, 1, Len(parsers[q - 1].replay)) = parsers[q - 1].replay

\* the destinations a parser holds as unresolved subgroups
Unresolved(p) == {p.subgroups[i].dest : i \in 1..Len(p.subgroups)}

\* C27: a subgroup destination that a parser earlier in the chain resolved is
\* never held as unresolved by a later parser of the chain, so that each
\* subgroup is resolved once per parse
C27_ResolvedOnce ==
    \A q \in 1..Len(parsers) : \A a \in 1..(q - 1) :
        Unresolved(parsers[q]) \cap Unresolved(parsers[a]) = {}

\* the last value given for the option opt, converted by int, else dflt
LastInt(opt, dflt) == IF Given(opt) THEN int(LastRaw(opt, "0")).v ELSE IntV(dflt)

\* the key chosen for Req.thing, and the required field of its alternative
\* "req"
ChosenKey == LastRaw(<<"thing">>, "")

RequiredArg == <<"thing", "some_required_arg">>

\* C21: a field without default of a subgroup alternative is required exactly
\* when that alternative is the chosen one: choosing it without the field
\* fails with a missing-required error (in the second round), choosing it with
\* the field succeeds with the given value, and choosing the other
\* alternative never fails for the field
C21_RequiredWhenChosen ==
    (SessionOf("Req") /\ Given(<<"thing">>)) =>
        /\ err.type = "missing_required" => (ChosenKey = "req" /\ ~Given(RequiredArg))
        /\ (ChosenKey = "req" /\ ~Given(RequiredArg)) =>
              /\ pc # "done"
              /\ Terminated => (err.type = "missing_required" /\ rounds = 2)
        /\ (pc = "done" /\ ChosenKey = "req") =>
              parsed_args[<<"bob">>]
                = InstV("Req", "thing" :>
                    InstV("WithRequiredArg",
                          ("some_required_arg" :> LastInt(RequiredArg, 0)) @@
                          ("other_arg" :> IntV(123))))
        /\ (pc = "done" /\ ChosenKey = "foo") =>
              parsed_args[<<"bob">>]
                = InstV("Req", "thing" :>
                    InstV("Foo", ("a" :> LastInt(<<"thing", "a">>, 1)) @@
                                 ("b" :> IntV(2))))

\* C21 witnesses live in one state each; this one is the failing parse: the
\* alternative "req" chosen and its required field not given
C21_Witness ==
    /\ SessionOf("Req")
    /\ args = <<Token(<<"thing">>, "req")>>
    /\ pc = "error" /\ err.type = "missing_required" /\ rounds = 2

\* Foo(a, b) with the last values given for the options of the branch at
\* the subgroup field name, else the defaults of Foo
FooAt(name) ==
    InstV("Foo", ("a" :> LastInt(<<name, "a">>, 1)) @@ ("b" :> LastInt(<<name, "b">>, 2)))

\* C22: when two subgroup fields of one schema both resolve to Foo, the
\* instance at each field holds the values given with the options of its own
\* prefix only, and the defaults of Foo for the fields not given
C22_BranchesIndependent ==
    (/\ SessionOf("Two") /\ pc = "done"
     /\ LastRaw(<<"first">>, "bar") = "foo" /\ LastRaw(<<"second">>, "foo") = "foo") =>
        parsed_args[<<"bob">>]
          = InstV("Two", ("first" :> FooAt("first")) @@ ("second" :> FooAt("second")))

\* C22 witness: both fields resolve to Foo and each gets its own --x.a
C22_Witness ==
    /\ SessionOf("Two") /\ pc = "done"
    /\ args = <<Token(<<"first">>, "foo"), Token(<<"first", "a">>, "5"),
                Token(<<"second", "a">>, "0")>>
    /\ parsed_args[<<"bob">>].kw["first"].kw["a"] = IntV(5)
    /\ parsed_args[<<"bob">>].kw["second"].kw["a"] = IntV(0)

\* the destinations of the fields of every parser of the chain
FieldDestinations ==
    UNION {{all_fields(parsers[q].wrappers, 1)[i].dest :
              i \in 1..Len(all_fields(parsers[q].wrappers, 1))} : q \in 1..Len(parsers)}

\* C28: the namespace a parse returns has one attribute per accepted
\* registration: the instance (or None) of the registered dataclass at each
\* root destination, and the last value given (else the default) of each option
\* added with add_argument; it has no attribute at the destination of a field
C28_ReturnedNamespace ==
    pc = "done" =>
        /\ DOMAIN parsed_args = {Accepted[k].call.dest : k \in 1..Len(Accepted)}
        /\ DOMAIN parsed_args \cap FieldDestinations = {}
        /\ \A k \in 1..Len(Accepted) :
              IF Accepted[k].call.method = "add_argument"
              THEN parsed_args[Accepted[k].call.dest]
                     = IF Given(Accepted[k].call.dest)
                       THEN int(LastRaw(Accepted[k].call.dest, "")).v
                       ELSE Accepted[k].call.default
              ELSE \/ parsed_args[Accepted[k].call.dest] = NoneV
                   \/ /\ IsInst(parsed_args[Accepted[k].call.dest])
                      /\ parsed_args[Accepted[k].call.dest].s = Accepted[k].call.dataclass

\* C28 witness: a parse of two rounds returned, with an option of add_argument
\* given on the command line and another one left at its default
C28_Witness ==
    /\ pc = "done" /\ rounds = 2
    /\ args = <<Token(<<"seed">>, "5"), Token(<<"thing">>, "foo")>>
    /\ parsed_args[<<"seed">>] = IntV(5)
    /\ parsed_args[<<"lr">>] = NoneV
    /\ IsInst(parsed_args[<<"bob">>])

\* C26: while a parser of the chain holds an unresolved subgroup it has
\* registered no option of an ordinary field, and postprocessing starts, after
\* the parse of the last parser of the chain, only when that parser holds no
\* unresolved subgroup
C26_FinalParseAfterResolution ==
    /\ \A q \in 1..Len(parsers) :
          Unresolved(parsers[q]) # {} =>
             \A i \in 1..Len(parsers[q].actions) :
                Len(parsers[q].actions[i].dest) > 1 => parsers[q].actions[i].is_choice
    /\ (pc = "postprocessing" /\ cur = Len(parsers)) => Unresolved(parsers[cur]) = {}

\* the nodes of every parser of the chain: the registered ones and their
\* descendants
Nodes ==
    UNION {Range(flatten(parsers[q].wrappers, 1)) : q \in 1..Len(parsers)}

\* node w and all its fields have required = value
AllRequired(w, value) ==
    /\ w.required = value
    /\ \A k \in 1..Len(w.fields) : w.fields[k].required = value

\* C24: after `required = False` on a node (the child of an Optional
\* attribute), the node, each of its fields, and every descendant node with
\* its fields have required = False
C24_RequiredPropagates ==
    \A w \in Nodes :
        w.optional =>
            /\ AllRequired(w, FALSE)
            /\ \A d \in Range(descendants(w)) : AllRequired(d, FALSE)

\* C24 witness: the setter ran on a node that has a field without default and
\* a descendant with a field without default, next to a node of the same
\* dataclass on which it did not run
C24_Witness ==
    \E w \in Nodes : \E v \in Nodes :
        /\ w.optional /\ w.dataclass = "Strict" /\ Len(descendants(w)) > 0
        /\ ~v.optional /\ v.dataclass = "Strict" /\ v.fields[1].required

\* the value the default d (an instance, a dict, or None) holds for a field
HeldBy(d, name) == IF d.tag = "none" THEN NoneV ELSE d.kw[name]

\* the nodes as add_arguments built them (before any conflict resolution)
BuiltNodes ==
    UNION {Range(flatten(parsers[q].wrappers, 1)) :
             q \in {r \in 1..Len(parsers) : ~parsers[r].preprocessing_done}}

\* C25: a node can be built with an instance or a mapping as default; the
\* defaults of each child of a node with defaults are the values these hold
\* for the child's field, and the default of a child of a node without default
\* is the default of the field, none if the field has no default
C25_ChildDefaults ==
    /\ \A k \in 1..Len(reg_log) :
          reg_log[k].call.default.tag \in {"inst", "dict"} =>
             reg_log[k].err # "AttributeError"
    /\ \A w \in BuiltNodes : \A c \in Range(w.children) :
          c.defaults = IF w.defaults # <<>>
                       THEN [i \in 1..Len(w.defaults) |-> HeldBy(w.defaults[i], c.name[1])]
                       ELSE own_defaults(default_value(Named(fields(w.dataclass),
                                                             c.name[1])))

\* the parser p has the option --help
HasHelp(p) == \E i \in 1..Len(p.actions) : p.actions[i].type = "help"

\* the option strings of the parser p
OptionStrings(p) == {p.actions[i].option : i \in 1..Len(p.actions)}

\* the class the tokens choose for Mixed.thing (its default is "foo")
ChosenThing == Lookup(fields("Mixed")[3].alternatives, LastRaw(<<"thing">>, "foo")).cls

\* C23: a parser that has subgroups to resolve has lost its --help before it
\* parses, a parser that has none has it; --help is acted on only by the last
\* parser of the chain, which has no subgroup left to resolve, and whose
\* options are then the ones of the chosen (else the default) branch
C23_HelpOnExpandedParser ==
    /\ \A q \in 1..Len(parsers) :
          parsers[q].preprocessing_done =>
             (HasHelp(parsers[q]) <=> Unresolved(parsers[q]) = {})
    /\ err.type = "print_help" =>
          /\ cur = Len(parsers)
          /\ Unresolved(parsers[cur]) = {}
          /\ SessionOf("Mixed") =>
                \A k \in 1..Len(fields(ChosenThing)) :
                   <<"thing", fields(ChosenThing)[k].name>> \in OptionStrings(parsers[cur])

\* C23 witness: --help before the choice of the branch bar: the second
\* parser prints its help, with the options of Bar
C23_Witness ==
    /\ SessionOf("Mixed")
    /\ args = <<Token(<<"help">>, ""), Token(<<"thing">>, "bar")>>
    /\ err.type = "print_help" /\ cur = 2
    /\ ~HasHelp(parsers[1])
    /\ <<"thing", "c">> \in OptionStrings(parsers[2])

====
